---- MODULE Spec2Model ----
(***************************************************************************)
(* Adaptive quiz engine of the LMS backend:                                *)
(*   backend/dynamic_quiz_service.py  (DynamicQuizService)                 *)
(*   backend/dynamic_quiz_routes.py   (the /dynamic-quiz HTTP routes)      *)
(*   backend/models.py                (QuestionBank, StudentPerformance,   *)
(*                                     DynamicQuiz, QuestionAttempt,       *)
(*                                     AdaptiveAlgorithmConfig)            *)
(*   backend/courses.py               (AdaptiveQuestionSelector etc.)      *)
(*                                                                         *)
(* Conventions.                                                            *)
(*  - Python floats that the code only compares or stores are kept as      *)
(*    exact rationals [num, den]; a ratio r of the configuration is kept   *)
(*    as the integer 100*r, and int(total * r) is (total * pct) \div 100   *)
(*    (equal to the float computation for every total in 0..60 and every   *)
(*    ratio used here).                                                    *)
(*  - None is the string "none" for enum-valued columns and NoTime for     *)
(*    timestamps.                                                          *)
(*  - A row of a table is a record; a table is a function or a sequence    *)
(*    indexed by the primary key.                                          *)
(***************************************************************************)
EXTENDS Integers, Sequences, FiniteSets, TLC

\* ------------------------------------------------------------------ bounds

\* Number of QuestionAttempt rows one quiz may accumulate in a run.
MaxAttempts == 4

\* The same for a run that takes a quiz of five questions to its end.
MaxLongAttempts == 5

\* Number of quizzes generated in a run.
MaxQuizzes == 1

\* The same for a run in which a student takes a lesson's quiz again.
MaxRepeatQuizzes == 2

\* Number of question-management requests (update / delete) in a run.
MaxAdminOps == 1

\* Latest instant the clock reaches in a run.
MaxTime == 1

\* Number of answers accepted in a run for a question that has no open
\* attempt in the quiz.
MaxUnserved == 1

\* Number of times the analytics rollup runs after a completion (the run
\* and its re-runs).
MaxRollups == 2

\* Smallest totalQuestions handed to the distribution calculation.
MinDistTotal == 3

\* ------------------------------------------------------- program constants

\* DynamicQuizCreate.total_questions = Field(default=10, ge=5, le=50)
MinRouteTotal == 5
MaxRouteTotal == 50

\* QuestionBank.estimated_time_seconds default
DefaultEstimatedTime == 60

\* ------------------------------------------------------------------- enums

\* models.py DifficultyLevel
DifficultyLevel == {"easy", "medium", "hard"}

\* models.py CapabilityLevel
CapabilityLevel == {"beginner", "intermediate", "advanced", "expert"}

\* None in a DateTime column (started_at, completed_at, answered_at)
NoTime == -1

\* ---------------------------------------------------------------- helpers

Max2(a, b) == IF a >= b THEN a ELSE b

RECURSIVE SumOver(_, _)
\* sum(f[x] for x in S)
SumOver(f, S) ==
    IF S = {} THEN 0
    ELSE LET x == CHOOSE y \in S : TRUE IN f[x] + SumOver(f, S \ {x})

RECURSIVE ProdOver(_, _)
ProdOver(f, S) ==
    IF S = {} THEN 1
    ELSE LET x == CHOOSE y \in S : TRUE IN f[x] * ProdOver(f, S \ {x})

\* The sequences that list every element of S exactly once (random.shuffle
\* may return any of them).
Orderings(S) ==
    {f \in [1..Cardinality(S) -> S] : \A i, j \in 1..Cardinality(S) : f[i] = f[j] => i = j}

\* The subsets of S with exactly n elements (ORDER BY random() LIMIT n draws
\* any of them when S has at least n rows, and all of S otherwise).
RandomLimit(S, n) ==
    IF Cardinality(S) <= n THEN {S}
    ELSE {T \in SUBSET S : Cardinality(T) = n}

NoDuplicates(seq) == \A i, j \in 1..Len(seq) : seq[i] = seq[j] => i = j

Range(seq) == {seq[i] : i \in 1..Len(seq)}

\* ---------------------------------------------- algorithm configuration

\* models.py AdaptiveAlgorithmConfig column defaults, ratios as percentages.
DefaultConfig ==
    [beginner     |-> [easy |-> 70, medium |-> 25, hard |-> 5],
     intermediate |-> [easy |-> 30, medium |-> 50, hard |-> 20],
     advanced     |-> [easy |-> 10, medium |-> 40, hard |-> 50]]

\* DynamicQuizService._calculate_question_distribution
CalculateQuestionDistribution(capability, total_questions, cfg) ==
    LET ratios == IF capability = "beginner" THEN cfg.beginner
                  ELSE IF capability = "intermediate" THEN cfg.intermediate
                  ELSE IF capability \in {"advanced", "expert"} THEN cfg.advanced
                  ELSE [easy |-> 30, medium |-> 50, hard |-> 20]
        easy_count   == (total_questions * ratios.easy) \div 100
        medium_count == (total_questions * ratios.medium) \div 100
        hard_count   == (total_questions * ratios.hard) \div 100
        total_planned == easy_count + medium_count + hard_count
    IN [easy   |-> easy_count,
        medium |-> IF total_planned < total_questions
                   THEN medium_count + (total_questions - total_planned)
                   ELSE medium_count,
        hard   |-> hard_count]

\* courses.py AdaptiveQuestionSelector._get_enhanced_distribution: the table
\* of ratios per capability level, as percentages.
EnhancedRatios ==
    [beginner     |-> [easy |-> 70, medium |-> 25, hard |-> 5],
     intermediate |-> [easy |-> 30, medium |-> 50, hard |-> 20],
     advanced     |-> [easy |-> 15, medium |-> 45, hard |-> 40],
     expert       |-> [easy |-> 10, medium |-> 30, hard |-> 60]]

\* courses.py AdaptiveQuestionSelector._get_enhanced_distribution
GetEnhancedDistribution(capability, total_questions) ==
    LET ratios == EnhancedRatios[capability]
        easy_count == Max2(1, (total_questions * ratios.easy) \div 100)
        hard_count == Max2(1, (total_questions * ratios.hard) \div 100)
    IN [easy   |-> easy_count,
        medium |-> total_questions - easy_count - hard_count,
        hard   |-> hard_count]

\* ------------------------------------------------------------ the database

\* users: 1 and 2 are students, 3 is an instructor (User.role)
Users == {1, 2, 3}
Students == {1, 2}
Role(u) == IF u \in Students THEN "student" ELSE "instructor"

\* courses 1 and 2; lessons 1 and 2 belong to course 1, lesson 3 to course 2
\* (Lesson.course_id)
LessonCourse(l) == IF l = 3 THEN 2 ELSE 1

\* primary keys of the QuestionBank rows
QIds == 1..6

\* the answers sent in a run, as <<selected_answer, time_taken_seconds>>:
\* every question's correct_answer is "A", and 30 and 120 seconds are half
\* and twice the estimated time of a default question, so one answer is
\* correct and quick and the other wrong and slow
Submissions == {<<"A", 30>>, <<"B", 120>>}

\* the question ids a student sends an answer for without having been served
\* the question
UnservedChoices == {1}

\* QuestionBank row as created by create_question (analytics fields at their
\* column defaults)
NewQuestion(course, lesson, difficulty) ==
    [course_id |-> course, lesson_id |-> lesson, difficulty_level |-> difficulty,
     correct_answer |-> "A", estimated_time_seconds |-> DefaultEstimatedTime,
     points |-> 1, is_active |-> TRUE,
     times_used |-> 0, times_correct |-> 0,
     success_rate |-> [num |-> 0, den |-> 1],
     average_time_taken |-> [num |-> 0, den |-> 1]]

\* The question bank of course 1: lesson 1 holds one easy and two medium
\* questions, lesson 2 one medium question, and one easy and one hard
\* question are course-wide (lesson_id NULL, written 0).  Course 2 has none.
\* Question 3 is worth two points, the others one.
FullBank ==
    [q \in QIds |->
        CASE q = 1 -> NewQuestion(1, 1, "easy")
          [] q = 2 -> NewQuestion(1, 0, "easy")
          [] q = 3 -> [NewQuestion(1, 1, "medium") EXCEPT !.points = 2]
          [] q = 4 -> NewQuestion(1, 1, "medium")
          [] q = 5 -> NewQuestion(1, 2, "medium")
          [] q = 6 -> NewQuestion(1, 0, "hard")]

VARIABLES
    questions,    \* QuestionBank table: id -> row
    perf,         \* StudentPerformance table: <<student, lesson>> -> row
    quizzes,      \* DynamicQuiz table: sequence of rows, id = position
    attempts,     \* QuestionAttempt table: per quiz id, rows in insertion order
    configs,      \* AdaptiveAlgorithmConfig table: <<course, lesson>> -> ratios
    enrollments,  \* Enrollment table: set of <<student, course>>
    now,          \* datetime.utcnow()
    response,     \* status of the last HTTP response
    calc,         \* input and result of a stand-alone calculation (a question
                  \* distribution, a capability assessment)
    analytics,    \* StudentAnalytics table: <<student, course>> -> row
    txn,          \* concurrent submit_answer requests: where each one is and
                  \* what its session holds in memory
    budget        \* requests spent so far, by kind, the number of quizzes a
                  \* run may generate and of attempt rows a quiz may
                  \* accumulate (bounds the run)

vars == <<questions, perf, quizzes, attempts, configs, enrollments, now,
          response, calc, txn, analytics, budget>>

db == <<questions, perf, quizzes, attempts, configs, enrollments>>

EmptyFunction == [x \in {} |-> 0]

Extend(f, key, val) == [k \in DOMAIN f \cup {key} |-> IF k = key THEN val ELSE f[k]]

NoSeed == <<0, 0>>

NoDistribution == [easy |-> 0, medium |-> 0, hard |-> 0]

IdleCalc == [capability |-> "none", total |-> 0, done |-> FALSE, result |-> NoDistribution]

\* the concurrent submit_answer requests of a run: request r is sent by
\* student r for quiz r
Requests == {1, 2}

\* no request has been sent
IdleRequests ==
    [r \in Requests |-> [pc |-> "idle", question_id |-> 0, selected_answer |-> "none",
                         time_taken_seconds |-> 0, times_used |-> 0, times_correct |-> 0,
                         average_time_taken |-> [num |-> 0, den |-> 1],
                         current_question_index |-> 0]]

\* --------------------------------------------------- StudentPerformance

\* DynamicQuizService._create_initial_performance_record, with the column
\* defaults of models.StudentPerformance for the fields it does not pass
InitialPerformanceRecord(lesson) ==
    [course_id |-> LessonCourse(lesson),
     current_capability |-> "beginner",
     mastery_score |-> [num |-> 0, den |-> 1],
     learning_velocity |-> [num |-> 1, den |-> 1],
     consistency_score |-> [num |-> 0, den |-> 1],
     easy_attempts |-> 0, easy_correct |-> 0,
     medium_attempts |-> 0, medium_correct |-> 0,
     hard_attempts |-> 0, hard_correct |-> 0,
     current_streak |-> 0, best_streak |-> 0,
     recommended_difficulty |-> "easy"]

\* StudentPerformance.get_overall_accuracy, as the rational correct/attempts
\* times 100 (0.0 without attempts)
GetOverallAccuracy(p) ==
    LET total_attempts == p.easy_attempts + p.medium_attempts + p.hard_attempts
        total_correct == p.easy_correct + p.medium_correct + p.hard_correct
    IN IF total_attempts = 0 THEN [num |-> 0, den |-> 1]
       ELSE [num |-> total_correct * 100, den |-> total_attempts]

\* r >= n/d for a rational r with positive denominator and d > 0
RatGeq(r, n, d) == r.num * d >= n * r.den
RatLeq(r, n, d) == r.num * d <= n * r.den

\* The capability thresholds of DynamicQuizService.assess_student_capability
\* for an existing record
CapabilityOf(p) ==
    LET overall_accuracy == GetOverallAccuracy(p)
        consistency_factor == p.consistency_score
        velocity_factor == p.learning_velocity
    IN IF RatGeq(overall_accuracy, 90, 1) /\ RatGeq(consistency_factor, 8, 10)
          /\ RatGeq(velocity_factor, 12, 10) THEN "expert"
       ELSE IF RatGeq(overall_accuracy, 75, 1) /\ RatGeq(consistency_factor, 6, 10)
       THEN "advanced"
       ELSE IF RatGeq(overall_accuracy, 50, 1) /\ RatGeq(consistency_factor, 4, 10)
       THEN "intermediate"
       ELSE "beginner"

\* DynamicQuizService.assess_student_capability: the performance table after
\* the call.  Without a record for (student, lesson) a record is created,
\* seeded with the capability of any record of the student in the same
\* course (query .first(): whichever row the database returns, here `seed`).
AssessedPerf(p, student, lesson, seed) ==
    IF <<student, lesson>> \notin DOMAIN p
    THEN IF seed # NoSeed
         THEN Extend(p, <<student, lesson>>,
                     [InitialPerformanceRecord(lesson) EXCEPT
                        !.current_capability = p[seed].current_capability])
         ELSE Extend(p, <<student, lesson>>, InitialPerformanceRecord(lesson))
    ELSE [p EXCEPT ![<<student, lesson>>].current_capability =
                        CapabilityOf(p[<<student, lesson>>])]

\* a course-wide lookup that takes any record of the student
SeedFromAnyCourse(p, student, lesson) ==
    LET rows == {k \in DOMAIN p : k[1] = student}
    IN IF rows = {} THEN {NoSeed} ELSE rows

\* the rows the course-wide lookup of assess_student_capability may return
SeedChoices(p, student, lesson) ==
    LET rows == {k \in DOMAIN p : k[1] = student /\ p[k].course_id = LessonCourse(lesson)}
    IN IF rows = {} THEN {NoSeed} ELSE rows

\* DynamicQuizService.assess_student_capability: the level returned
AssessedCapability(p, student, lesson, seed) ==
    IF <<student, lesson>> \notin DOMAIN p
    THEN IF seed # NoSeed THEN p[seed].current_capability ELSE "beginner"
    ELSE CapabilityOf(p[<<student, lesson>>])

\* ------------------------------------------------------ question selection

\* some listing of the rows of a query result
RECURSIVE SeqOfSet(_)
SeqOfSet(S) ==
    IF S = {} THEN << >>
    ELSE LET x == CHOOSE y \in S : TRUE IN <<x>> \o SeqOfSet(S \ {x})

\* random.shuffle: every rearrangement of the list
Shuffles(seq) ==
    {[i \in 1..Len(seq) |-> seq[p[i]]] : p \in Orderings(1..Len(seq))}

\* active questions of a lesson at a difficulty (the lesson-specific query of
\* _select_questions_by_distribution and _find_replacement_question)
LessonPool(qs, lesson_id, difficulty, excluded) ==
    {q \in DOMAIN qs : /\ qs[q].lesson_id = lesson_id
                       /\ qs[q].difficulty_level = difficulty
                       /\ qs[q].is_active
                       /\ q \notin excluded}

\* active questions of a course at a difficulty, without the excluded ids
\* (the course-wide query of both functions)
CoursePool(qs, course_id, difficulty, excluded) ==
    {q \in DOMAIN qs : /\ qs[q].course_id = course_id
                       /\ qs[q].difficulty_level = difficulty
                       /\ qs[q].is_active
                       /\ q \notin excluded}

\* One difficulty level of _select_questions_by_distribution: the possible
\* lists `questions` after the lesson-specific draw and the course-wide
\* fallback.
TierDraws(qs, lesson_id, course_id, difficulty, count) ==
    IF count = 0 THEN {<< >>}
    ELSE UNION {
           IF Cardinality(L) < count
           THEN {SeqOfSet(L) \o SeqOfSet(A) :
                   A \in RandomLimit(CoursePool(qs, course_id, difficulty, L),
                                     count - Cardinality(L))}
           ELSE {SeqOfSet(L)}
           : L \in RandomLimit(LessonPool(qs, lesson_id, difficulty, {}), count)}

\* DynamicQuizService._select_questions_by_distribution: the lists of
\* question ids it may return
SelectQuestionsByDistribution(qs, lesson_id, course_id, distribution) ==
    UNION {Shuffles(e \o m \o h) :
             e \in TierDraws(qs, lesson_id, course_id, "easy", distribution.easy),
             m \in TierDraws(qs, lesson_id, course_id, "medium", distribution.medium),
             h \in TierDraws(qs, lesson_id, course_id, "hard", distribution.hard)}

\* DynamicQuizService._get_algorithm_config: the key of the row used
\* (lesson-specific, else course-wide, else a new default row for the lesson)
ConfigKey(cfgs, course_id, lesson_id) ==
    IF <<course_id, lesson_id>> \in DOMAIN cfgs THEN <<course_id, lesson_id>>
    ELSE IF <<course_id, 0>> \in DOMAIN cfgs THEN <<course_id, 0>>
    ELSE <<course_id, lesson_id>>

ConfigsAfterGet(cfgs, course_id, lesson_id) ==
    IF ConfigKey(cfgs, course_id, lesson_id) \in DOMAIN cfgs THEN cfgs
    ELSE Extend(cfgs, <<course_id, lesson_id>>, DefaultConfig)

\* the DynamicQuiz row created by generate_dynamic_quiz (other columns at
\* their defaults)
NewQuiz(student, lesson, is_adaptive, capability, distribution, selected) ==
    [student_id |-> student, course_id |-> LessonCourse(lesson), lesson_id |-> lesson,
     total_questions |-> Len(selected),
     is_adaptive |-> is_adaptive,
     planned_easy |-> distribution.easy,
     planned_medium |-> distribution.medium,
     planned_hard |-> distribution.hard,
     actual_easy |-> 0, actual_medium |-> 0, actual_hard |-> 0,
     selected_questions |-> selected,
     current_question_index |-> 0,
     is_completed |-> FALSE,
     final_score |-> [num |-> 0, den |-> 1],
     questions_answered |-> 0,
     actual_duration_minutes |-> 0,
     starting_capability |-> capability,
     ending_capability |-> "none",
     adaptive_changes_made |-> 0,
     started_at |-> NoTime,
     completed_at |-> NoTime]

Respond(status) == response' = status

Spend(kind) == budget' = [budget EXCEPT ![kind] = @ + 1]

\* DynamicQuizService.generate_dynamic_quiz
ServiceGenerate(student, lesson, total_questions, is_adaptive) ==
    \E seed \in SeedChoices(perf, student, lesson) :
      LET capability == AssessedCapability(perf, student, lesson, seed)
          course == LessonCourse(lesson)
          cfgs == ConfigsAfterGet(configs, course, lesson)
          distribution == CalculateQuestionDistribution(
                              capability, total_questions,
                              cfgs[ConfigKey(configs, course, lesson)])
      IN \E selected \in SelectQuestionsByDistribution(questions, lesson, course, distribution) :
           /\ perf' = AssessedPerf(perf, student, lesson, seed)
           /\ configs' = cfgs
           /\ quizzes' = Append(quizzes, NewQuiz(student, lesson, is_adaptive,
                                                 capability, distribution, selected))
           /\ attempts' = Append(attempts, << >>)

\* POST /dynamic-quiz/generate
GenerateDynamicQuiz(u, lesson, total_questions, is_adaptive) ==
    /\ budget.generated < budget.quizzes
    /\ Spend("generated")
    /\ IF Role(u) # "student"
       THEN /\ Respond(403)
            /\ UNCHANGED db
       ELSE IF <<u, LessonCourse(lesson)>> \notin enrollments
       THEN /\ Respond(403)
            /\ UNCHANGED db
       ELSE /\ ServiceGenerate(u, lesson, total_questions, is_adaptive)
            /\ Respond(200)
            /\ UNCHANGED <<questions, enrollments>>
    /\ UNCHANGED <<now, calc, txn, analytics>>

\* ------------------------------------------------------- starting a quiz

\* GET /courses/{course_id}/lessons/{lesson_id}/adaptive-quiz (courses.py):
\* the enrollment looked up is that of the course_id of the path
GenerateAdaptiveQuizForLesson(u, course_id, lesson_id, total_questions) ==
    /\ budget.generated < budget.quizzes
    /\ Spend("generated")
    /\ IF Role(u) # "student"
       THEN /\ Respond(403)
            /\ UNCHANGED db
       ELSE IF <<u, course_id>> \notin enrollments
       THEN /\ Respond(403)
            /\ UNCHANGED db
       ELSE /\ ServiceGenerate(u, lesson_id, total_questions, TRUE)
            /\ Respond(200)
            /\ UNCHANGED <<questions, enrollments>>
    /\ UNCHANGED <<now, calc, txn, analytics>>

\* GET /dynamic-quiz/capability-assessment/{lesson_id}: assesses the caller
\* (no role or enrollment check) and reads the record
AssessStudentCapabilityRoute(u, lesson_id) ==
    /\ \E seed \in SeedChoices(perf, u, lesson_id) :
          perf' = AssessedPerf(perf, u, lesson_id, seed)
    /\ Respond(200)
    /\ UNCHANGED <<questions, quizzes, attempts, configs, enrollments, now, calc, txn, analytics, budget>>

\* a lookup of the quiz by its id alone
QuizOfAnyStudent(u, quiz_id) == quiz_id \in 1..Len(quizzes)

\* the ownership lookup of every student route:
\* query(DynamicQuiz).filter(id == quiz_id, student_id == current_user.id)
OwnedQuiz(u, quiz_id) ==
    quiz_id \in 1..Len(quizzes) /\ quizzes[quiz_id].student_id = u

\* a start route that stamps the quiz on every call
StartQuizStampingAgain(u, quiz_id) ==
    /\ IF ~OwnedQuiz(u, quiz_id)
       THEN /\ Respond(404)
            /\ UNCHANGED quizzes
       ELSE IF quizzes[quiz_id].is_completed
       THEN /\ Respond(400)
            /\ UNCHANGED quizzes
       ELSE /\ quizzes' = [quizzes EXCEPT ![quiz_id].started_at = now]
            /\ Respond(200)
    /\ UNCHANGED <<questions, perf, attempts, configs, enrollments, now, calc, txn, analytics, budget>>

\* POST /dynamic-quiz/start/{quiz_id}
StartQuiz(u, quiz_id) ==
    /\ IF ~OwnedQuiz(u, quiz_id)
       THEN /\ Respond(404)
            /\ UNCHANGED quizzes
       ELSE IF quizzes[quiz_id].is_completed
       THEN /\ Respond(400)
            /\ UNCHANGED quizzes
       ELSE /\ quizzes' = IF quizzes[quiz_id].started_at = NoTime
                          THEN [quizzes EXCEPT ![quiz_id].started_at = now]
                          ELSE quizzes
            /\ Respond(200)
    /\ UNCHANGED <<questions, perf, attempts, configs, enrollments, now, calc, txn, analytics, budget>>

\* ------------------------------------------------------------- completion

\* the QuestionAttempt row created by get_next_question
NewAttempt(question_id, order, capability, difficulty, t) ==
    [question_id |-> question_id,
     question_order |-> order,
     student_capability_at_time |-> capability,
     question_difficulty |-> difficulty,
     started_at |-> t,
     answered_at |-> NoTime,
     selected_answer |-> "none",
     is_correct |-> FALSE,
     time_taken_seconds |-> 0,
     points_earned |-> 0]

Indices(atts) == 1..Len(atts)

Answered(atts) == {i \in Indices(atts) : atts[i].answered_at # NoTime}

\* number of rows of atts with is_correct set
CorrectCount(atts) == Cardinality({i \in Indices(atts) : atts[i].is_correct})

\* an ending capability that also promotes an advanced student
EndingCapabilityPromotingAdvanced(quiz, atts) ==
    LET correct == CorrectCount(atts)
        n == Len(atts)
    IN IF 10 * correct >= 9 * n
       THEN IF quiz.starting_capability = "beginner" THEN "intermediate"
            ELSE IF quiz.starting_capability = "intermediate" THEN "advanced"
            ELSE "expert"
       ELSE IF 10 * correct <= 3 * n
       THEN IF quiz.starting_capability = "advanced" THEN "intermediate"
            ELSE IF quiz.starting_capability = "intermediate" THEN "beginner"
            ELSE quiz.ending_capability
       ELSE quiz.ending_capability

\* the ending capability decided by _complete_quiz from the share of correct
\* rows among all attempt rows of the quiz
EndingCapability(quiz, atts) ==
    LET correct == CorrectCount(atts)
        n == Len(atts)
    IN IF 10 * correct >= 9 * n
       THEN IF quiz.starting_capability = "beginner" THEN "intermediate"
            ELSE IF quiz.starting_capability = "intermediate" THEN "advanced"
            ELSE quiz.ending_capability
       ELSE IF 10 * correct <= 3 * n
       THEN IF quiz.starting_capability = "advanced" THEN "intermediate"
            ELSE IF quiz.starting_capability = "intermediate" THEN "beginner"
            ELSE quiz.ending_capability
       ELSE quiz.ending_capability

\* the score computed by _complete_quiz: points earned over the points the
\* attempted questions are worth now, times 100
FinalScore(atts, qs) ==
    LET total_points == SumOver([i \in Indices(atts) |-> atts[i].points_earned], Indices(atts))
        max_points == SumOver([i \in Indices(atts) |-> qs[atts[i].question_id].points],
                              Indices(atts))
    IN IF max_points > 0 THEN [num |-> total_points * 100, den |-> max_points]
       ELSE [num |-> 0, den |-> 1]

\* DynamicQuizService._complete_quiz: the quiz row afterwards
CompleteQuiz(quiz, atts, qs, t) ==
    LET stamped == [quiz EXCEPT
                      !.is_completed = TRUE,
                      !.completed_at = t,
                      !.actual_duration_minutes =
                          IF quiz.started_at # NoTime THEN t - quiz.started_at ELSE @]
    IN IF Len(atts) = 0 THEN stamped
       ELSE [stamped EXCEPT
               !.final_score = FinalScore(atts, qs),
               !.questions_answered = Cardinality(Answered(atts)),
               !.actual_easy =
                   Cardinality({i \in Indices(atts) : atts[i].question_difficulty = "easy"}),
               !.actual_medium =
                   Cardinality({i \in Indices(atts) : atts[i].question_difficulty = "medium"}),
               !.actual_hard =
                   Cardinality({i \in Indices(atts) : atts[i].question_difficulty = "hard"}),
               !.ending_capability = EndingCapability(quiz, atts)]

\* --------------------------------------------------------- adaptive logic

\* query(QuestionAttempt).filter(quiz, answered).order_by(desc(question_order))
\* .limit(3): the sets of rows it may return (rows of equal question_order
\* come in any order)
RecentAttemptChoices(atts) ==
    LET answered == Answered(atts)
        k == IF Cardinality(answered) < 3 THEN Cardinality(answered) ELSE 3
    IN {R \in SUBSET answered :
          /\ Cardinality(R) = k
          /\ \A a \in R, b \in answered \ R :
                atts[a].question_order >= atts[b].question_order}

\* recent_accuracy >= n/d and <= n/d of _apply_adaptive_logic
RecentAccuracyGeq(atts, R, n, d) ==
    Cardinality({a \in R : atts[a].is_correct}) * d >= n * Cardinality(R)

RecentAccuracyLeq(atts, R, n, d) ==
    Cardinality({a \in R : atts[a].is_correct}) * d <= n * Cardinality(R)

\* avg_time_ratio of _apply_adaptive_logic as a rational: the sum of
\* time_taken / estimated_time over the rows whose question has a positive
\* estimated time, divided by the number of all rows
AvgTimeRatio(atts, qs, R) ==
    LET valid == {a \in R : qs[atts[a].question_id].estimated_time_seconds > 0}
        est == [a \in valid |-> qs[atts[a].question_id].estimated_time_seconds]
        common == ProdOver(est, valid)
        scaled == [a \in valid |-> atts[a].time_taken_seconds * (common \div est[a])]
    IN [num |-> SumOver(scaled, valid), den |-> common * Cardinality(R)]

\* DynamicQuizService._find_replacement_question: the ids it may return
\* (empty when it returns None)
FindReplacementQuestion(qs, lesson_id, course_id, target_difficulty, excluded_ids) ==
    IF LessonPool(qs, lesson_id, target_difficulty, excluded_ids) # {}
    THEN LessonPool(qs, lesson_id, target_difficulty, excluded_ids)
    ELSE CoursePool(qs, course_id, target_difficulty, excluded_ids)

\* number of answered rows _apply_adaptive_logic needs before it adapts
MinRecentAttempts == 2

ShouldIncreaseDifficulty(atts, qs, R, current_difficulty) ==
    /\ RecentAccuracyGeq(atts, R, 8, 10)
    /\ RatLeq(AvgTimeRatio(atts, qs, R), 12, 10)
    /\ current_difficulty # "hard"

ShouldDecreaseDifficulty(atts, qs, R, current_difficulty) ==
    /\ RecentAccuracyLeq(atts, R, 4, 10)
    /\ RatGeq(AvgTimeRatio(atts, qs, R), 15, 10)
    /\ current_difficulty # "easy"

\* _apply_adaptive_logic with a step up from easy that lands on hard
AdaptedSkippingTier(quiz, atts, qs, current_question_id, R) ==
    LET current_difficulty == qs[current_question_id].difficulty_level
        up == "hard"
        down == IF current_difficulty = "medium" THEN "easy" ELSE "medium"
        target == IF ShouldIncreaseDifficulty(atts, qs, R, current_difficulty) THEN up
                  ELSE IF ShouldDecreaseDifficulty(atts, qs, R, current_difficulty) THEN down
                  ELSE "none"
        found == FindReplacementQuestion(qs, quiz.lesson_id, quiz.course_id, target,
                                         Range(quiz.selected_questions))
    IN IF Cardinality(R) < MinRecentAttempts THEN {current_question_id}
       ELSE IF target = "none" \/ found = {} THEN {current_question_id}
       ELSE found

\* DynamicQuizService._apply_adaptive_logic for one result R of the query of
\* recent attempts: the ids it may return
AdaptedWith(quiz, atts, qs, current_question_id, R) ==
    LET current_difficulty == qs[current_question_id].difficulty_level
        up == IF current_difficulty = "medium" THEN "hard" ELSE "medium"
        down == IF current_difficulty = "medium" THEN "easy" ELSE "medium"
        target == IF ShouldIncreaseDifficulty(atts, qs, R, current_difficulty) THEN up
                  ELSE IF ShouldDecreaseDifficulty(atts, qs, R, current_difficulty) THEN down
                  ELSE "none"
        found == FindReplacementQuestion(qs, quiz.lesson_id, quiz.course_id, target,
                                         Range(quiz.selected_questions))
    IN IF Cardinality(R) < MinRecentAttempts THEN {current_question_id}
       ELSE IF target = "none" \/ found = {} THEN {current_question_id}
       ELSE found

\* DynamicQuizService._apply_adaptive_logic: the ids it may return
ApplyAdaptiveLogic(quiz, atts, qs, current_question_id) ==
    UNION {AdaptedWith(quiz, atts, qs, current_question_id, R) :
             R \in RecentAttemptChoices(atts)}

\* whether get_next_question consults the adaptive logic
AdaptationEnabled(quiz) == quiz.is_adaptive /\ quiz.current_question_index > 0

\* ------------------------------------------------------- the next question

\* The quiz row after the substitution branch of get_next_question.
\* selected_questions is a plain JSON column (models.py), so the ORM does not
\* see the in-place assignment to one of its entries: the commit writes
\* adaptive_changes_made, and the list entry is written only if `stored`.
Substituted(quiz, question_id, stored) ==
    [quiz EXCEPT
       !.selected_questions =
           IF stored THEN [@ EXCEPT ![quiz.current_question_index + 1] = question_id]
           ELSE @,
       !.adaptive_changes_made = @ + 1]

\* DynamicQuizService.get_next_question for a quiz that is not completed and
\* has a planned question at the cursor: serves question_id
ServeQuestion(quiz_id, question_id, stored) ==
    LET quiz == quizzes[quiz_id]
        planned == quiz.selected_questions[quiz.current_question_index + 1]
    IN /\ quizzes' = IF question_id # planned
                     THEN [quizzes EXCEPT ![quiz_id] = Substituted(quiz, question_id, stored)]
                     ELSE quizzes
       /\ attempts' = [attempts EXCEPT ![quiz_id] =
                         Append(@, NewAttempt(question_id,
                                              quiz.current_question_index + 1,
                                              quiz.starting_capability,
                                              questions[question_id].difficulty_level,
                                              now))]

\* the ids get_next_question may serve
NextQuestionChoices(quiz_id) ==
    LET quiz == quizzes[quiz_id]
        planned == quiz.selected_questions[quiz.current_question_index + 1]
    IN IF AdaptationEnabled(quiz)
       THEN ApplyAdaptiveLogic(quiz, attempts[quiz_id], questions, planned)
       ELSE {planned}

\* GET /dynamic-quiz/question/{quiz_id}
GetNextQuestion(u, quiz_id) ==
    /\ IF ~OwnedQuiz(u, quiz_id)
       THEN /\ Respond(404)
            /\ UNCHANGED <<quizzes, attempts>>
       ELSE IF quizzes[quiz_id].is_completed
       THEN /\ Respond(400)
            /\ UNCHANGED <<quizzes, attempts>>
       ELSE IF quizzes[quiz_id].current_question_index
                 >= Len(quizzes[quiz_id].selected_questions)
       THEN /\ quizzes' = [quizzes EXCEPT ![quiz_id] =
                             CompleteQuiz(@, attempts[quiz_id], questions, now)]
            /\ Respond(404)
            /\ UNCHANGED attempts
       ELSE /\ Len(attempts[quiz_id]) < budget.attempts
            /\ \E question_id \in NextQuestionChoices(quiz_id), stored \in BOOLEAN :
                 /\ (question_id = quizzes[quiz_id].selected_questions[
                                       quizzes[quiz_id].current_question_index + 1]
                       => stored)
                 /\ ServeQuestion(quiz_id, question_id, stored)
            /\ Respond(200)
    /\ UNCHANGED <<questions, perf, configs, enrollments, now, calc, txn, analytics, budget>>

\* ------------------------------------------------------ answer submission

RECURSIVE Gcd(_, _)
Gcd(a, b) == IF b = 0 THEN a ELSE Gcd(b, a % b)

\* the rational n/d (d > 0, n >= 0) in lowest terms
Rat(n, d) == [num |-> n \div Gcd(n, d), den |-> d \div Gcd(n, d)]

\* StudentPerformance._update_derived_metrics: mastery_score
MasteryScore(p) ==
    LET total_weighted_attempts == p.easy_attempts + 2 * p.medium_attempts + 3 * p.hard_attempts
        total_weighted_correct == p.easy_correct + 2 * p.medium_correct + 3 * p.hard_correct
    IN IF total_weighted_attempts > 0
       THEN Rat(total_weighted_correct * 100, total_weighted_attempts)
       ELSE p.mastery_score

\* StudentPerformance._update_derived_metrics: consistency_score, which is
\* max(0, 1 - variance) of the per-tier accuracies when at least two tiers
\* have attempts
ConsistencyScore(p) ==
    LET tiers == {t \in DifficultyLevel :
                    CASE t = "easy" -> p.easy_attempts > 0
                      [] t = "medium" -> p.medium_attempts > 0
                      [] t = "hard" -> p.hard_attempts > 0}
        att == [t \in tiers |-> CASE t = "easy" -> p.easy_attempts
                                  [] t = "medium" -> p.medium_attempts
                                  [] t = "hard" -> p.hard_attempts]
        cor == [t \in tiers |-> CASE t = "easy" -> p.easy_correct
                                  [] t = "medium" -> p.medium_correct
                                  [] t = "hard" -> p.hard_correct]
        k == Cardinality(tiers)
        common == ProdOver(att, tiers)
        x == [t \in tiers |-> cor[t] * (common \div att[t])]
        total == SumOver(x, tiers)
        squares == [t \in tiers |-> (k * x[t] - total) * (k * x[t] - total)]
        var_num == SumOver(squares, tiers)
        var_den == k * k * k * common * common
    IN IF k > 1
       THEN IF var_num >= var_den THEN [num |-> 0, den |-> 1]
            ELSE Rat(var_den - var_num, var_den)
       ELSE p.consistency_score

\* an update that counts the answer and the streak but does not track the
\* best streak
UpdatedRecordWithoutBestStreak(p, question_difficulty, is_correct) ==
    LET hit == IF is_correct THEN 1 ELSE 0
        counted ==
            IF question_difficulty = "easy"
            THEN [p EXCEPT !.easy_attempts = @ + 1, !.easy_correct = @ + hit]
            ELSE IF question_difficulty = "medium"
            THEN [p EXCEPT !.medium_attempts = @ + 1, !.medium_correct = @ + hit]
            ELSE [p EXCEPT !.hard_attempts = @ + 1, !.hard_correct = @ + hit]
    IN [counted EXCEPT !.current_streak = IF is_correct THEN @ + 1 ELSE 0]

\* DynamicQuizService._update_student_performance: the row afterwards
UpdatedRecord(p, question_difficulty, is_correct) ==
    LET hit == IF is_correct THEN 1 ELSE 0
        counted ==
            IF question_difficulty = "easy"
            THEN [p EXCEPT !.easy_attempts = @ + 1, !.easy_correct = @ + hit]
            ELSE IF question_difficulty = "medium"
            THEN [p EXCEPT !.medium_attempts = @ + 1, !.medium_correct = @ + hit]
            ELSE [p EXCEPT !.hard_attempts = @ + 1, !.hard_correct = @ + hit]
        streaked ==
            IF is_correct
            THEN [counted EXCEPT !.current_streak = @ + 1,
                                 !.best_streak = Max2(@, counted.current_streak + 1)]
            ELSE [counted EXCEPT !.current_streak = 0]
    IN [streaked EXCEPT !.mastery_score = MasteryScore(streaked),
                        !.consistency_score = ConsistencyScore(streaked)]

\* DynamicQuizService._update_student_performance: the table afterwards
UpdateStudentPerformance(p, student_id, lesson_id, question_difficulty, is_correct) ==
    IF <<student_id, lesson_id>> \notin DOMAIN p THEN p
    ELSE [p EXCEPT ![<<student_id, lesson_id>>] =
                        UpdatedRecord(@, question_difficulty, is_correct)]

\* the question analytics of submit_answer: the QuestionBank row afterwards
UsedQuestion(question, is_correct, time_taken_seconds) ==
    LET used == question.times_used + 1
        correct == question.times_correct + (IF is_correct THEN 1 ELSE 0)
    IN [question EXCEPT
          !.times_used = used,
          !.times_correct = correct,
          !.success_rate = Rat(correct * 100, used),
          !.average_time_taken =
              Rat(question.average_time_taken.num * (used - 1)
                    + time_taken_seconds * question.average_time_taken.den,
                  question.average_time_taken.den * used)]

\* the rows the lookup of submit_answer may return: the unanswered attempts
\* of the quiz for the question (.first() of an unordered query), 0 for None
OpenAttempts(atts, question_id) ==
    {i \in Indices(atts) : atts[i].question_id = question_id /\ atts[i].answered_at = NoTime}

AttemptLookup(atts, question_id) ==
    IF OpenAttempts(atts, question_id) = {} THEN {0} ELSE OpenAttempts(atts, question_id)

\* the attempt row after submit_answer has filled it in
AnsweredAttempt(attempt, question, selected_answer, time_taken_seconds, t) ==
    [attempt EXCEPT
       !.selected_answer = selected_answer,
       !.is_correct = (selected_answer = question.correct_answer),
       !.time_taken_seconds = time_taken_seconds,
       !.answered_at = t,
       !.points_earned = IF selected_answer = question.correct_answer
                         THEN question.points ELSE 0]

\* a submit_answer that completes the quiz only once the cursor has passed
\* its end
ServiceSubmitAnswerCompletingLate(quiz_id, question_id, selected_answer, time_taken_seconds) ==
    LET quiz == quizzes[quiz_id]
        question == questions[question_id]
        is_correct == (selected_answer = question.correct_answer)
        atts == attempts[quiz_id]
        advanced == [quiz EXCEPT !.current_question_index = @ + 1]
        used == [questions EXCEPT ![question_id] =
                    UsedQuestion(@, is_correct, time_taken_seconds)]
    IN \E attempt \in AttemptLookup(atts, question_id) :
         LET answered == IF attempt = 0 THEN atts
                         ELSE [atts EXCEPT ![attempt] =
                                 AnsweredAttempt(@, question, selected_answer,
                                                 time_taken_seconds, now)]
         IN /\ attempts' = [attempts EXCEPT ![quiz_id] = answered]
            /\ perf' = UpdateStudentPerformance(perf, quiz.student_id, quiz.lesson_id,
                                                question.difficulty_level, is_correct)
            /\ questions' = used
            /\ quizzes' = [quizzes EXCEPT ![quiz_id] =
                             IF advanced.current_question_index > advanced.total_questions
                             THEN CompleteQuiz(advanced, answered, used, now)
                             ELSE advanced]

\* DynamicQuizService.submit_answer (quiz and question exist)
ServiceSubmitAnswer(quiz_id, question_id, selected_answer, time_taken_seconds) ==
    LET quiz == quizzes[quiz_id]
        question == questions[question_id]
        is_correct == (selected_answer = question.correct_answer)
        atts == attempts[quiz_id]
        advanced == [quiz EXCEPT !.current_question_index = @ + 1]
        used == [questions EXCEPT ![question_id] =
                    UsedQuestion(@, is_correct, time_taken_seconds)]
    IN \E attempt \in AttemptLookup(atts, question_id) :
         LET answered == IF attempt = 0 THEN atts
                         ELSE [atts EXCEPT ![attempt] =
                                 AnsweredAttempt(@, question, selected_answer,
                                                 time_taken_seconds, now)]
         IN /\ attempts' = [attempts EXCEPT ![quiz_id] = answered]
            /\ perf' = UpdateStudentPerformance(perf, quiz.student_id, quiz.lesson_id,
                                                question.difficulty_level, is_correct)
            /\ questions' = used
            /\ quizzes' = [quizzes EXCEPT ![quiz_id] =
                             IF advanced.current_question_index >= advanced.total_questions
                             THEN CompleteQuiz(advanced, answered, used, now)
                             ELSE advanced]

\* the service is about to take an answer for a question that has no open
\* attempt in the quiz
Unserved(quiz_id, question_id) ==
    /\ quiz_id \in 1..Len(quizzes)
    /\ OpenAttempts(attempts[quiz_id], question_id) = {}

\* the answer route without its refusal of a completed quiz
SubmitAnswerIgnoringCompletion(u, quiz_id, question_id, selected_answer, time_taken_seconds) ==
    /\ IF ~OwnedQuiz(u, quiz_id)
       THEN /\ Respond(404)
            /\ UNCHANGED <<questions, perf, quizzes, attempts>>
       ELSE /\ ServiceSubmitAnswer(quiz_id, question_id, selected_answer, time_taken_seconds)
            /\ Respond(200)
    /\ IF Unserved(quiz_id, question_id)
       THEN budget.unserved < MaxUnserved /\ Spend("unserved")
       ELSE UNCHANGED budget
    /\ UNCHANGED <<configs, enrollments, now, calc, txn, analytics>>

\* POST /dynamic-quiz/answer/{quiz_id}/{question_id}
SubmitAnswer(u, quiz_id, question_id, selected_answer, time_taken_seconds) ==
    /\ IF ~OwnedQuiz(u, quiz_id)
       THEN /\ Respond(404)
            /\ UNCHANGED <<questions, perf, quizzes, attempts>>
       ELSE IF quizzes[quiz_id].is_completed
       THEN /\ Respond(400)
            /\ UNCHANGED <<questions, perf, quizzes, attempts>>
       ELSE /\ ServiceSubmitAnswer(quiz_id, question_id, selected_answer, time_taken_seconds)
            /\ Respond(200)
    /\ IF Unserved(quiz_id, question_id)
       THEN budget.unserved < MaxUnserved /\ Spend("unserved")
       ELSE UNCHANGED budget
    /\ UNCHANGED <<configs, enrollments, now, calc, txn, analytics>>

\* the ending capability _calculate_quiz_results reports: the stored one,
\* or the starting capability when none was stored
ReportedEndingCapability(quiz) ==
    IF quiz.ending_capability # "none" THEN quiz.ending_capability
    ELSE quiz.starting_capability

\* GET /dynamic-quiz/results/{quiz_id}: reads the quiz and its attempts
GetQuizResults(u, quiz_id) ==
    /\ IF ~OwnedQuiz(u, quiz_id)
       THEN Respond(404)
       ELSE IF ~quizzes[quiz_id].is_completed
       THEN Respond(400)
       ELSE Respond(200)
    /\ UNCHANGED <<db, now, calc, txn, analytics, budget>>

\* ---------------------------------------------------- question management

\* PUT /dynamic-quiz/questions/{question_id}; the request repeats the stored
\* text, options, answer and estimated time and carries the difficulty level
\* and point value given here
UpdateQuestion(u, question_id, difficulty_level, points) ==
    /\ budget.admin < MaxAdminOps
    /\ Spend("admin")
    /\ IF Role(u) \notin {"admin", "instructor"}
       THEN /\ Respond(403)
            /\ UNCHANGED questions
       ELSE /\ questions' = [questions EXCEPT
                               ![question_id].difficulty_level = difficulty_level,
                               ![question_id].points = points]
            /\ Respond(200)
    /\ UNCHANGED <<perf, quizzes, attempts, configs, enrollments, now, calc, txn, analytics>>

\* DELETE /dynamic-quiz/questions/{question_id} (soft delete)
DeleteQuestion(u, question_id) ==
    /\ budget.admin < MaxAdminOps
    /\ Spend("admin")
    /\ IF Role(u) \notin {"admin", "instructor"}
       THEN /\ Respond(403)
            /\ UNCHANGED questions
       ELSE /\ questions' = [questions EXCEPT ![question_id].is_active = FALSE]
            /\ Respond(200)
    /\ UNCHANGED <<perf, quizzes, attempts, configs, enrollments, now, calc, txn, analytics>>

\* PUT /dynamic-quiz/config/{course_id}?lesson_id=..., with a
\* beginner_distribution in the body (ratios are not validated)
UpdateAlgorithmConfig(u, course_id, lesson_id, beginner_distribution) ==
    /\ budget.admin < MaxAdminOps
    /\ Spend("admin")
    /\ IF Role(u) \notin {"admin", "instructor"}
       THEN /\ Respond(403)
            /\ UNCHANGED configs
       ELSE /\ configs' =
                 IF <<course_id, lesson_id>> \in DOMAIN configs
                 THEN [configs EXCEPT ![<<course_id, lesson_id>>].beginner =
                                           beginner_distribution]
                 ELSE Extend(configs, <<course_id, lesson_id>>,
                             [DefaultConfig EXCEPT !.beginner = beginner_distribution])
            /\ Respond(200)
    /\ UNCHANGED <<questions, perf, quizzes, attempts, enrollments, now, calc, txn, analytics>>

\* --------------------------------------------------- other steps of a run

\* datetime.utcnow() moves on
Tick ==
    /\ now < MaxTime
    /\ now' = now + 1
    /\ UNCHANGED <<questions, perf, quizzes, attempts, configs, enrollments,
                   response, calc, txn, analytics, budget>>

\* DynamicQuizService.submit_answer entered by a request whose route checks
\* were made before another request of the same student committed (the
\* service itself looks only for the quiz and the question)
ServiceSubmitAnswerCall(quiz_id, question_id, selected_answer, time_taken_seconds) ==
    /\ quiz_id \in 1..Len(quizzes)
    /\ ServiceSubmitAnswer(quiz_id, question_id, selected_answer, time_taken_seconds)
    /\ Respond(200)
    /\ IF Unserved(quiz_id, question_id)
       THEN budget.unserved < MaxUnserved /\ Spend("unserved")
       ELSE UNCHANGED budget
    /\ UNCHANGED <<configs, enrollments, now, calc, txn, analytics>>

\* A submit_answer request running beside others, first part (route checks
\* and submit_answer up to the reload of the question): the attempt and the
\* student's performance are written and committed by
\* _update_student_performance, which expires the session's objects, so the
\* quiz and question rows are read again and now held in memory.
SubmitAnswerLoad(r, question_id, selected_answer, time_taken_seconds) ==
    /\ txn[r].pc = "idle"
    /\ OwnedQuiz(r, r)
    /\ ~quizzes[r].is_completed
    /\ LET question == questions[question_id]
           is_correct == (selected_answer = question.correct_answer)
       IN /\ \E attempt \in AttemptLookup(attempts[r], question_id) :
               attempts' = [attempts EXCEPT ![r] =
                              IF attempt = 0 THEN @
                              ELSE [@ EXCEPT ![attempt] =
                                      AnsweredAttempt(@, question, selected_answer,
                                                      time_taken_seconds, now)]]
          /\ perf' = UpdateStudentPerformance(perf, quizzes[r].student_id, quizzes[r].lesson_id,
                                              question.difficulty_level, is_correct)
          /\ txn' = [txn EXCEPT ![r] =
                       [pc |-> "loaded", question_id |-> question_id,
                        selected_answer |-> selected_answer,
                        time_taken_seconds |-> time_taken_seconds,
                        times_used |-> question.times_used,
                        times_correct |-> question.times_correct,
                        average_time_taken |-> question.average_time_taken,
                        current_question_index |-> quizzes[r].current_question_index]]
    /\ UNCHANGED <<questions, quizzes, configs, enrollments, now, response, calc,
                   analytics, budget>>

\* Second part: the cursor and the question analytics are computed from the
\* values held in memory and written by the commit (an UPDATE of the
\* changed columns; no row lock is taken when the rows are read), and the
\* quiz is completed if the cursor has reached its end.
SubmitAnswerCommit(r) ==
    /\ txn[r].pc = "loaded"
    /\ LET t == txn[r]
           held == [questions[t.question_id] EXCEPT
                      !.times_used = t.times_used,
                      !.times_correct = t.times_correct,
                      !.average_time_taken = t.average_time_taken]
           is_correct == (t.selected_answer = held.correct_answer)
           used == [questions EXCEPT ![t.question_id] =
                       UsedQuestion(held, is_correct, t.time_taken_seconds)]
           advanced == [quizzes[r] EXCEPT
                          !.current_question_index = t.current_question_index + 1]
       IN /\ questions' = used
          /\ quizzes' = [quizzes EXCEPT ![r] =
                           IF advanced.current_question_index >= advanced.total_questions
                           THEN CompleteQuiz(advanced, attempts[r], used, now)
                           ELSE advanced]
    /\ txn' = [txn EXCEPT ![r].pc = "done"]
    /\ Respond(200)
    /\ UNCHANGED <<perf, attempts, configs, enrollments, now, calc, analytics, budget>>

\* DynamicQuizService._calculate_question_distribution applied to the input
\* held in calc, with the default configuration row
CalculateDistribution ==
    /\ calc.capability # "none"
    /\ ~calc.done
    /\ calc' = [calc EXCEPT
                  !.done = TRUE,
                  !.result = CalculateQuestionDistribution(calc.capability, calc.total,
                                                           DefaultConfig)]
    /\ UNCHANGED <<questions, perf, quizzes, attempts, configs, enrollments, now,
                   response, txn, analytics, budget>>

\* ------------------------------------------------------------ specifications

\* student 1 is enrolled in both courses, student 2 in none
InitialEnrollments == {<<1, 1>>, <<1, 2>>}

\* the database before any quiz exists
Init ==
    /\ questions = FullBank
    /\ perf = EmptyFunction
    /\ quizzes = << >>
    /\ attempts = << >>
    /\ configs = EmptyFunction
    /\ enrollments = InitialEnrollments
    /\ now = 0
    /\ response = 0
    /\ calc = IdleCalc
    /\ txn = IdleRequests
    /\ analytics = EmptyFunction
    /\ budget = [generated |-> 0, admin |-> 0, unserved |-> 0, rollups |-> 0, quizzes |-> MaxQuizzes, attempts |-> MaxAttempts]

\* the question ids a student sends an answer for: those of the unanswered
\* attempts of the quiz, and UnservedChoices
SentQuestions(quiz_id) ==
    UnservedChoices \cup
      (IF quiz_id \in 1..Len(quizzes)
       THEN {attempts[quiz_id][i].question_id :
               i \in {j \in Indices(attempts[quiz_id]) :
                        attempts[quiz_id][j].answered_at = NoTime}}
       ELSE {})

\* the routes of a student who owns the quizzes, called in any order
Next ==
    \/ \E u \in Users, lesson \in {1, 3}, is_adaptive \in BOOLEAN :
         GenerateDynamicQuiz(u, lesson, MinRouteTotal, is_adaptive)
    \/ \E quiz_id \in 1..MaxQuizzes : StartQuiz(1, quiz_id)
    \/ \E quiz_id \in 1..MaxQuizzes : GetNextQuestion(1, quiz_id)
    \/ \E quiz_id \in 1..MaxQuizzes, submission \in Submissions :
         \E question_id \in SentQuestions(quiz_id) :
           SubmitAnswer(1, quiz_id, question_id, submission[1], submission[2])

Spec == Init /\ [][Next]_vars

\* the point values an instructor gives a question
PointChoices == {1, 2}

\* a beginner distribution an instructor may configure (percentages): fewer
\* easy questions than medium ones
ConfiguredBeginner == [easy |-> 20, medium |-> 60, hard |-> 20]

\* the question ids of the unanswered attempts of a quiz
OpenQuestions(quiz_id) ==
    IF quiz_id \in 1..Len(quizzes)
    THEN {attempts[quiz_id][i].question_id :
            i \in {j \in Indices(attempts[quiz_id]) :
                     attempts[quiz_id][j].answered_at = NoTime}}
    ELSE {}

\* an adaptive quiz of lesson 1 taken by a student who answers what was
\* served, under the default or an instructor's configuration
NextAdaptive ==
    \/ UpdateAlgorithmConfig(3, 1, 1, ConfiguredBeginner)
    \/ GenerateDynamicQuiz(1, 1, MinRouteTotal, TRUE)
    \/ \E quiz_id \in 1..MaxQuizzes : GetNextQuestion(1, quiz_id)
    \/ \E quiz_id \in 1..MaxQuizzes, submission \in Submissions :
         \E question_id \in OpenQuestions(quiz_id) :
           SubmitAnswer(1, quiz_id, question_id, submission[1], submission[2])

SpecAdaptive == Init /\ [][NextAdaptive]_vars

\* a quiz of lesson 1 taken while an instructor edits or deletes questions
NextAdmin ==
    \/ GenerateDynamicQuiz(1, 1, MinRouteTotal, FALSE)
    \/ \E quiz_id \in 1..MaxQuizzes : GetNextQuestion(1, quiz_id)
    \/ \E quiz_id \in 1..MaxQuizzes, submission \in Submissions :
         \E question_id \in OpenQuestions(quiz_id) :
           SubmitAnswer(1, quiz_id, question_id, submission[1], submission[2])
    \/ \E u \in {1, 3}, question_id \in QIds, points \in PointChoices :
         UpdateQuestion(u, question_id, questions[question_id].difficulty_level, points)
    \/ \E u \in {1, 3}, question_id \in QIds : DeleteQuestion(u, question_id)

SpecAdmin == Init /\ [][NextAdmin]_vars

\* quizzes whose (quick, correct) answers reach the service without the
\* route's checks, while time passes
NextService ==
    \/ \E lesson \in {1, 3} : GenerateDynamicQuiz(1, lesson, MinRouteTotal, FALSE)
    \/ \E quiz_id \in 1..MaxQuizzes : StartQuiz(1, quiz_id)
    \/ \E quiz_id \in 1..MaxQuizzes : GetNextQuestion(1, quiz_id)
    \/ \E quiz_id \in 1..MaxQuizzes :
         \E question_id \in SentQuestions(quiz_id) :
           ServiceSubmitAnswerCall(quiz_id, question_id, "A", 30)
    \/ Tick

SpecService == Init /\ [][NextService]_vars

\* datetime.utcnow() moves on after some quiz has been started
TickAfterStart ==
    /\ \E quiz_id \in 1..Len(quizzes) : quizzes[quiz_id].started_at # NoTime
    /\ Tick

\* the students whose requests name a quiz: its owner and another student
Callers == {1, 2}

\* a quiz of student 1 on which student 1 and student 2 both call the
\* session routes with quick correct answers; time passes once it is started
NextAccess ==
    \/ \E lesson \in {1, 3} : GenerateDynamicQuiz(1, lesson, MinRouteTotal, FALSE)
    \/ \E u \in Callers, quiz_id \in 1..MaxQuizzes : StartQuiz(u, quiz_id)
    \/ \E u \in Callers, quiz_id \in 1..MaxQuizzes : GetNextQuestion(u, quiz_id)
    \/ \E u \in Callers, quiz_id \in 1..MaxQuizzes :
         \E question_id \in SentQuestions(quiz_id) :
           SubmitAnswer(u, quiz_id, question_id, "A", 30)
    \/ \E u \in Callers, quiz_id \in 1..MaxQuizzes : GetQuizResults(u, quiz_id)
    \/ TickAfterStart

SpecAccess == Init /\ [][NextAccess]_vars

\* beginner distributions an instructor may send (percentages): one that
\* adds up to 1 and one in which every ratio is 1
OverfullBeginner == [easy |-> 100, medium |-> 100, hard |-> 100]
BeginnerChoices == {ConfiguredBeginner, OverfullBeginner}

\* quiz generation for lesson 1 or 3 after an instructor has configured the
\* lesson or the course, or deactivated a question
NextConfigured ==
    \/ \E lesson_id \in {0, 1}, beginner_distribution \in BeginnerChoices :
         UpdateAlgorithmConfig(3, 1, lesson_id, beginner_distribution)
    \/ \E question_id \in QIds : DeleteQuestion(3, question_id)
    \/ \E lesson \in {1, 3}, is_adaptive \in BOOLEAN :
         GenerateDynamicQuiz(1, lesson, MinRouteTotal, is_adaptive)

SpecConfigured == Init /\ [][NextConfigured]_vars

\* the StudentPerformance record of a lesson after the answers of `history`
\* (pairs <<difficulty, is_correct>>) and a reassessment of the lesson
RECURSIVE RecordAfter(_, _)
RecordAfter(lesson, history) ==
    IF history = << >> THEN InitialPerformanceRecord(lesson)
    ELSE LET last == history[Len(history)]
             before == RecordAfter(lesson, SubSeq(history, 1, Len(history) - 1))
             p == UpdatedRecord(before, last[1], last[2])
         IN [p EXCEPT !.current_capability = CapabilityOf(p)]

\* answer histories that leave a record at beginner (none), at advanced (an
\* easy and a medium question right) and at intermediate (one more medium
\* question, wrong)
Histories ==
    {<< >>,
     <<<<"easy", TRUE>>, <<"medium", TRUE>>>>,
     <<<<"easy", TRUE>>, <<"medium", TRUE>>, <<"medium", FALSE>>>>}

\* the performance tables of student 1 before an assessment: for each of
\* the lessons in `lessons` a record left by one of the histories
PerformanceTables ==
    UNION {[{1} \X lessons -> Histories] : lessons \in SUBSET {1, 2, 3}}

\* assessment of student 1 for any lesson, by a quiz generation or by the
\* assessment route, from any of these performance tables
InitAssessed ==
    /\ questions = FullBank
    /\ \E table \in PerformanceTables :
          perf = [k \in DOMAIN table |-> RecordAfter(k[2], table[k])]
    /\ quizzes = << >>
    /\ attempts = << >>
    /\ configs = EmptyFunction
    /\ enrollments = InitialEnrollments
    /\ now = 0
    /\ response = 0
    /\ calc = IdleCalc
    /\ txn = IdleRequests
    /\ analytics = EmptyFunction
    /\ budget = [generated |-> 0, admin |-> 0, unserved |-> 0, rollups |-> 0, quizzes |-> MaxQuizzes, attempts |-> MaxAttempts]

NextAssessed ==
    \/ \E lesson \in 1..3 : GenerateDynamicQuiz(1, lesson, MinRouteTotal, FALSE)
    \/ \E lesson \in 1..3 : AssessStudentCapabilityRoute(1, lesson)

SpecAssessed == InitAssessed /\ [][NextAssessed]_vars

\* the question bank with every question worth one point
UniformBank == [q \in QIds |-> [FullBank[q] EXCEPT !.points = 1]]

\* a quiz of lesson 1 taken to its end, each question answered before the
\* next is asked for, by a student whose record of the lesson was left at
\* beginner, advanced or intermediate by earlier answers
InitCompletion ==
    /\ questions = UniformBank
    /\ \E history \in Histories : perf = [k \in {<<1, 1>>} |-> RecordAfter(1, history)]
    /\ quizzes = << >>
    /\ attempts = << >>
    /\ configs = EmptyFunction
    /\ enrollments = InitialEnrollments
    /\ now = 0
    /\ response = 0
    /\ calc = IdleCalc
    /\ txn = IdleRequests
    /\ analytics = EmptyFunction
    /\ budget = [generated |-> 0, admin |-> 0, unserved |-> 0, rollups |-> 0, quizzes |-> MaxQuizzes, attempts |-> MaxLongAttempts]

NextCompletion ==
    \/ GenerateDynamicQuiz(1, 1, MinRouteTotal, FALSE)
    \/ \E quiz_id \in 1..MaxQuizzes :
         OpenQuestions(quiz_id) = {} /\ GetNextQuestion(1, quiz_id)
    \/ \E quiz_id \in 1..MaxQuizzes, submission \in Submissions :
         \E question_id \in OpenQuestions(quiz_id) :
           SubmitAnswer(1, quiz_id, question_id, submission[1], submission[2])

SpecCompletion == InitCompletion /\ [][NextCompletion]_vars

\* a beginner's first quiz of lesson 1, taken by a student who keeps
\* fetching and answering: a request that can be made is eventually made
FairCompletion == Init /\ [][NextCompletion]_vars /\ WF_vars(NextCompletion)

\* the planned distribution and the selections of a beginner's quiz of
\* MinRouteTotal questions on lesson 1 from the full bank
BeginnerPlan == CalculateQuestionDistribution("beginner", MinRouteTotal, DefaultConfig)
BeginnerSelections == SelectQuestionsByDistribution(FullBank, 1, 1, BeginnerPlan)

\* the quiz and the attempt of a student who has generated such a quiz and
\* been served its first question
ServedQuiz(student, selected) ==
    NewQuiz(student, 1, FALSE, "beginner", BeginnerPlan, selected)
ServedAttempts(selected) ==
    <<NewAttempt(selected[1], 1, "beginner", FullBank[selected[1]].difficulty_level, 0)>>

\* two students of course 1 have each generated a quiz of lesson 1 and been
\* served the same first question; their answers are then handled by
\* requests that run side by side
InitConcurrent ==
    /\ questions = FullBank
    /\ perf = [k \in {<<1, 1>>, <<2, 1>>} |-> InitialPerformanceRecord(1)]
    /\ \E first \in BeginnerSelections, second \in BeginnerSelections :
          /\ first[1] = second[1]
          /\ quizzes = <<ServedQuiz(1, first), ServedQuiz(2, second)>>
          /\ attempts = <<ServedAttempts(first), ServedAttempts(second)>>
    /\ configs = ConfigsAfterGet(EmptyFunction, 1, 1)
    /\ enrollments = {<<1, 1>>, <<2, 1>>}
    /\ now = 0
    /\ response = 200
    /\ calc = IdleCalc
    /\ txn = IdleRequests
    /\ analytics = EmptyFunction
    /\ budget = [generated |-> 2, admin |-> 0, unserved |-> 0, rollups |-> 0, quizzes |-> MaxQuizzes, attempts |-> MaxAttempts]

NextConcurrent ==
    \/ \E r \in Requests, submission \in Submissions :
         SubmitAnswerLoad(r, attempts[r][1].question_id, submission[1], submission[2])
    \/ \E r \in Requests : SubmitAnswerCommit(r)

SpecConcurrent == InitConcurrent /\ [][NextConcurrent]_vars

\* courses.py EnhancedCapabilityAssessment._weighted_capability_assessment.
\* Factors are held in hundredths and the weights are percentages, so the
\* score is in ten-thousandths.
FactorNames == {"accuracy", "difficulty_progression", "consistency", "velocity",
                "recent_trend"}

\* a weighting in which a higher velocity lowers the score
WeightedScoreAgainstVelocity(factors) ==
    factors.accuracy * 35 + factors.difficulty_progression * 25
      + factors.consistency * 15 - factors.velocity * 10 + factors.recent_trend * 15

WeightedScore(factors) ==
    factors.accuracy * 35 + factors.difficulty_progression * 25
      + factors.consistency * 15 + factors.velocity * 10 + factors.recent_trend * 15

WeightedCapabilityAssessment(factors) ==
    LET weighted_score == WeightedScore(factors)
    IN IF weighted_score >= 8500 THEN "expert"
       ELSE IF weighted_score >= 7000 THEN "advanced"
       ELSE IF weighted_score >= 5000 THEN "intermediate"
       ELSE "beginner"

\* DynamicQuizService.assess_student_capability on a record whose overall
\* accuracy (a percentage), consistency_score and learning_velocity are the
\* accuracy, consistency and velocity factors
LadderCapability(factors) ==
    CapabilityOf([InitialPerformanceRecord(1) EXCEPT
                    !.easy_attempts = 10000,
                    !.easy_correct = factors.accuracy,
                    !.consistency_score = [num |-> factors.consistency, den |-> 100],
                    !.learning_velocity = [num |-> factors.velocity, den |-> 100]])

\* factor values in hundredths: fractions of 1, and for the accuracy also
\* the percentages get_overall_accuracy returns, for the velocity also 1.2
FactorValues == {0, 30, 50, 70, 90, 100}
AccuracyValues == FactorValues \cup {5000, 7500, 9000}
VelocityValues == FactorValues \cup {120}

ValuesOf(factor) ==
    IF factor = "accuracy" THEN AccuracyValues
    ELSE IF factor = "velocity" THEN VelocityValues
    ELSE FactorValues

\* the outcome of the assessments of a set of factors
Assessed(factors) ==
    [score |-> WeightedScore(factors),
     level |-> WeightedCapabilityAssessment(factors),
     ladder |-> LadderCapability(factors)]

\* a student is assessed, one factor rises, and the student is assessed again
InitFactors ==
    /\ questions = FullBank
    /\ perf = EmptyFunction
    /\ quizzes = << >>
    /\ attempts = << >>
    /\ configs = EmptyFunction
    /\ enrollments = InitialEnrollments
    /\ now = 0
    /\ response = 0
    /\ \E factors \in [FactorNames -> AccuracyValues \cup VelocityValues] :
          /\ \A f \in FactorNames : factors[f] \in ValuesOf(f)
          /\ calc = [factors |-> factors, raised |-> "none",
                     before |-> Assessed(factors), after |-> Assessed(factors)]
    /\ txn = IdleRequests
    /\ analytics = EmptyFunction
    /\ budget = [generated |-> 0, admin |-> 0, unserved |-> 0, rollups |-> 0, quizzes |-> MaxQuizzes, attempts |-> MaxAttempts]

AssessWithRaisedFactor(factor, value) ==
    /\ calc.raised = "none"
    /\ value > calc.factors[factor]
    /\ LET raised == [calc.factors EXCEPT ![factor] = value]
       IN calc' = [factors |-> raised, raised |-> factor,
                   before |-> calc.after, after |-> Assessed(raised)]
    /\ UNCHANGED <<questions, perf, quizzes, attempts, configs, enrollments, now,
                   response, txn, analytics, budget>>

NextFactors == \E factor \in FactorNames : \E value \in ValuesOf(factor) :
                  AssessWithRaisedFactor(factor, value)

SpecFactors == InitFactors /\ [][NextFactors]_vars

\* one student takes quizzes of lesson 1 from the first assessment on,
\* asking for questions and answering them, rightly or wrongly, in any order
NextPerformance ==
    \/ \E is_adaptive \in BOOLEAN : GenerateDynamicQuiz(1, 1, MinRouteTotal, is_adaptive)
    \/ \E quiz_id \in 1..MaxQuizzes : GetNextQuestion(1, quiz_id)
    \/ \E quiz_id \in 1..MaxQuizzes, submission \in Submissions :
         \E question_id \in SentQuestions(quiz_id) :
           SubmitAnswer(1, quiz_id, question_id, submission[1], submission[2])

SpecPerformance == Init /\ [][NextPerformance]_vars

\* a student takes the first quiz of lesson 1 to its end, each question
\* answered before the next is asked for, and then generates a quiz of the
\* lesson again
InitRepeat ==
    /\ questions = FullBank
    /\ perf = EmptyFunction
    /\ quizzes = << >>
    /\ attempts = << >>
    /\ configs = EmptyFunction
    /\ enrollments = InitialEnrollments
    /\ now = 0
    /\ response = 0
    /\ calc = IdleCalc
    /\ txn = IdleRequests
    /\ analytics = EmptyFunction
    /\ budget = [generated |-> 0, admin |-> 0, unserved |-> 0, rollups |-> 0,
                 quizzes |-> MaxRepeatQuizzes, attempts |-> MaxAttempts]

NextRepeat ==
    \/ /\ \A quiz_id \in 1..Len(quizzes) : quizzes[quiz_id].is_completed
       /\ GenerateDynamicQuiz(1, 1, MinRouteTotal, FALSE)
    \/ \E quiz_id \in 1..MaxQuizzes :
         OpenQuestions(quiz_id) = {} /\ GetNextQuestion(1, quiz_id)
    \/ \E quiz_id \in 1..MaxQuizzes, submission \in Submissions :
         \E question_id \in OpenQuestions(quiz_id) :
           SubmitAnswer(1, quiz_id, question_id, submission[1], submission[2])

SpecRepeat == InitRepeat /\ [][NextRepeat]_vars

\* a float column holding a whole number of hundredths, in hundredths
WholeHundredths(r) == (r.num * 100) % r.den = 0
Hundredths(r) == (r.num * 100) \div r.den

\* EnhancedCapabilityAssessment._calculate_difficulty_progression, in
\* hundredths
DifficultyProgression(p) ==
    LET Above(correct, tried, tenths) ==
            tried > 0 /\ correct * 10 > tenths * tried
    IN IF Above(p.hard_correct, p.hard_attempts, 7) THEN 90
       ELSE IF /\ Above(p.medium_correct, p.medium_attempts, 7)
               /\ Above(p.easy_correct, p.easy_attempts, 8) THEN 70
       ELSE IF Above(p.easy_correct, p.easy_attempts, 8) THEN 50
       ELSE 30

\* the values of EnhancedCapabilityAssessment._calculate_recent_trend
\* (declining, stable or too few quizzes, improving), in hundredths
RecentTrends == {20, 50, 80}

\* EnhancedCapabilityAssessment._calculate_assessment_factors, in hundredths
CalculateAssessmentFactors(p, recent_trend) ==
    [accuracy |-> Hundredths(GetOverallAccuracy(p)),
     difficulty_progression |-> DifficultyProgression(p),
     consistency |-> Hundredths(p.consistency_score),
     velocity |-> Hundredths(p.learning_velocity),
     recent_trend |-> recent_trend]

\* the answers that left the record to be assessed: up to two answers of any
\* tier, right or wrong, or three right answers and a wrong one
AssessedHistories ==
    LET Answer == {"easy", "medium", "hard"} \X BOOLEAN
    IN {<< >>} \cup {<<a>> : a \in Answer} \cup {<<a, b>> : a, b \in Answer}
         \cup {<<<<"easy", TRUE>>, <<"medium", TRUE>>, <<"hard", TRUE>>, <<d, FALSE>>>> :
                 d \in {"easy", "medium", "hard"}}

\* student 1 has a record for lesson 1 whose accuracy and consistency are
\* whole hundredths, and a recent trend
InitExisting ==
    /\ questions = FullBank
    /\ \E history \in AssessedHistories :
          LET p == RecordAfter(1, history)
          IN /\ WholeHundredths(GetOverallAccuracy(p))
             /\ WholeHundredths(p.consistency_score)
             /\ perf = [k \in {<<1, 1>>} |-> p]
    /\ quizzes = << >>
    /\ attempts = << >>
    /\ configs = EmptyFunction
    /\ enrollments = InitialEnrollments
    /\ now = 0
    /\ response = 0
    /\ \E recent_trend \in RecentTrends :
          calc = [done |-> FALSE, recent_trend |-> recent_trend]
    /\ txn = IdleRequests
    /\ analytics = EmptyFunction
    /\ budget = [generated |-> 0, admin |-> 0, unserved |-> 0, rollups |-> 0,
                 quizzes |-> MaxQuizzes, attempts |-> MaxAttempts]

\* the capability assessment of the existing record: the factors, the
\* weighted score and level of EnhancedCapabilityAssessment, and the level of
\* DynamicQuizService.assess_student_capability
AssessExistingRecord ==
    /\ ~calc.done
    /\ LET factors == CalculateAssessmentFactors(perf[<<1, 1>>], calc.recent_trend)
       IN calc' = [done |-> TRUE, recent_trend |-> calc.recent_trend,
                   factors |-> factors, after |-> Assessed(factors)]
    /\ UNCHANGED <<questions, perf, quizzes, attempts, configs, enrollments, now,
                   response, txn, analytics, budget>>

SpecExisting == InitExisting /\ [][AssessExistingRecord]_vars

\* models.StudentAnalytics row with the column defaults of its quiz metrics
NewAnalytics ==
    [quizzes_attempted |-> 0, quizzes_passed |-> 0,
     avg_quiz_score |-> [num |-> 0, den |-> 1],
     best_quiz_score |-> [num |-> 0, den |-> 1]]

\* the completed quizzes of a student in a course
CompletedInCourse(student_id, course_id) ==
    {q \in 1..Len(quizzes) : /\ quizzes[q].student_id = student_id
                             /\ quizzes[q].course_id = course_id
                             /\ quizzes[q].is_completed}

RECURSIVE RatSum(_, _)
\* sum of the final scores of a set of quizzes, as a rational
RatSum(qs, S) ==
    IF S = {} THEN [num |-> 0, den |-> 1]
    ELSE LET q == CHOOSE x \in S : TRUE
             rest == RatSum(qs, S \ {q})
         IN Rat(qs[q].final_score.num * rest.den + rest.num * qs[q].final_score.den,
                qs[q].final_score.den * rest.den)

\* update_student_analytics_background: the row afterwards, the latest
\* completed quiz being `latest`
RolledUp(row, student_id, course_id, latest) ==
    LET done == CompletedInCourse(student_id, course_id)
        total == RatSum(quizzes, done)
        best == CHOOSE q \in done :
                  \A r \in done :
                    quizzes[q].final_score.num * quizzes[r].final_score.den
                      >= quizzes[r].final_score.num * quizzes[q].final_score.den
    IN [quizzes_attempted |-> row.quizzes_attempted + 1,
        quizzes_passed |-> row.quizzes_passed
                             + (IF RatGeq(quizzes[latest].final_score, 70, 1) THEN 1 ELSE 0),
        avg_quiz_score |-> Rat(total.num, total.den * Cardinality(done)),
        best_quiz_score |-> quizzes[best].final_score]

\* update_student_analytics_background, the task the answer route schedules
\* when an answer has completed a quiz.  Without a StudentAnalytics row the
\* task adds 1 to the unset quizzes_attempted of the new object, fails and
\* rolls back.
UpdateStudentAnalyticsBackground(student_id, course_id) ==
    /\ CompletedInCourse(student_id, course_id) # {}
    /\ budget.rollups < MaxRollups
    /\ Spend("rollups")
    /\ IF <<student_id, course_id>> \notin DOMAIN analytics
       THEN UNCHANGED analytics
       ELSE \E latest \in CompletedInCourse(student_id, course_id) :
              /\ \A q \in CompletedInCourse(student_id, course_id) :
                    quizzes[q].completed_at <= quizzes[latest].completed_at
              /\ analytics' = [analytics EXCEPT ![<<student_id, course_id>>] =
                                 RolledUp(@, student_id, course_id, latest)]
    /\ UNCHANGED <<db, now, response, calc, txn>>

\* a student with or without an analytics row for course 1 takes a quiz of
\* lesson 1 to its end; the rollup then runs, and runs again
InitRollup ==
    /\ questions = FullBank
    /\ perf = EmptyFunction
    /\ quizzes = << >>
    /\ attempts = << >>
    /\ configs = EmptyFunction
    /\ enrollments = InitialEnrollments
    /\ now = 0
    /\ response = 0
    /\ calc = IdleCalc
    /\ txn = IdleRequests
    /\ analytics \in {EmptyFunction, [k \in {<<1, 1>>} |-> NewAnalytics]}
    /\ budget = [generated |-> 0, admin |-> 0, unserved |-> 0, rollups |-> 0,
                 quizzes |-> MaxQuizzes, attempts |-> MaxAttempts]

NextRollup ==
    \/ NextCompletion
    \/ UpdateStudentAnalyticsBackground(1, 1)

SpecRollup == InitRollup /\ [][NextRollup]_vars

\* the commits of DynamicQuizService.submit_answer: in
\* _update_student_performance, in submit_answer itself, in _complete_quiz
CommitPoints == {"performance", "answer", "completion"}

\* the counters an answer is counted in
Counted(quiz_id, question_id) ==
    LET quiz == quizzes[quiz_id]
        p == perf[<<quiz.student_id, quiz.lesson_id>>]
    IN [answered |-> Cardinality({i \in Answered(attempts[quiz_id]) :
                                    attempts[quiz_id][i].question_id = question_id}),
        performance |-> p.easy_attempts + p.medium_attempts + p.hard_attempts,
        current_streak |-> p.current_streak,
        times_used |-> questions[question_id].times_used,
        current_question_index |-> quiz.current_question_index]

\* POST /dynamic-quiz/answer/{quiz_id}/{question_id} when the store fails at
\* one of the commits of submit_answer: what earlier commits of the call
\* wrote stays, the rest is rolled back, and the route answers 500.  calc
\* keeps the request and the counters before it.
SubmitAnswerFailing(u, quiz_id, question_id, selected_answer, time_taken_seconds, failing) ==
    /\ calc = IdleCalc
    /\ OwnedQuiz(u, quiz_id)
    /\ ~quizzes[quiz_id].is_completed
    /\ <<quizzes[quiz_id].student_id, quizzes[quiz_id].lesson_id>> \in DOMAIN perf
    /\ LET quiz == quizzes[quiz_id]
           question == questions[question_id]
           is_correct == (selected_answer = question.correct_answer)
           advanced == [quiz EXCEPT !.current_question_index = @ + 1]
       IN /\ failing = "completion"
               => advanced.current_question_index >= advanced.total_questions
          /\ IF failing = "performance"
             THEN UNCHANGED <<attempts, perf>>
             ELSE /\ \E attempt \in AttemptLookup(attempts[quiz_id], question_id) :
                       attempts' = [attempts EXCEPT ![quiz_id] =
                                      IF attempt = 0 THEN @
                                      ELSE [@ EXCEPT ![attempt] =
                                              AnsweredAttempt(@, question, selected_answer,
                                                              time_taken_seconds, now)]]
                  /\ perf' = UpdateStudentPerformance(perf, quiz.student_id, quiz.lesson_id,
                                                      question.difficulty_level, is_correct)
          /\ IF failing = "completion"
             THEN /\ quizzes' = [quizzes EXCEPT ![quiz_id] = advanced]
                  /\ questions' = [questions EXCEPT ![question_id] =
                                     UsedQuestion(@, is_correct, time_taken_seconds)]
             ELSE UNCHANGED <<quizzes, questions>>
    /\ calc' = [done |-> TRUE, quiz_id |-> quiz_id, question_id |-> question_id,
                selected_answer |-> selected_answer,
                time_taken_seconds |-> time_taken_seconds,
                failing |-> failing, before |-> Counted(quiz_id, question_id)]
    /\ Respond(500)
    /\ UNCHANGED <<configs, enrollments, now, txn, analytics, budget>>

\* a quiz of lesson 1 taken one question at a time; once, the store fails
\* during an answer, and the student sends the answer again
NextRetry ==
    \/ GenerateDynamicQuiz(1, 1, MinRouteTotal, FALSE)
    \/ \E quiz_id \in 1..MaxQuizzes :
         /\ OpenQuestions(quiz_id) = {}
         /\ calc.done => response = 200
         /\ GetNextQuestion(1, quiz_id)
    \/ \E quiz_id \in 1..MaxQuizzes, submission \in Submissions :
         \E question_id \in OpenQuestions(quiz_id) :
           SubmitAnswer(1, quiz_id, question_id, submission[1], submission[2])
    \/ \E quiz_id \in 1..MaxQuizzes, submission \in Submissions, failing \in CommitPoints :
         \E question_id \in OpenQuestions(quiz_id) :
           SubmitAnswerFailing(1, quiz_id, question_id, submission[1], submission[2], failing)
    \/ /\ calc.done
       /\ response = 500
       /\ SubmitAnswer(1, calc.quiz_id, calc.question_id, calc.selected_answer,
                       calc.time_taken_seconds)

SpecRetry == Init /\ [][NextRetry]_vars

\* the course ids a request may carry
CourseIds == {1, 2}

\* the two generation routes, called by any user for any lesson, under any
\* set of enrollments of the two students
InitEnrolled ==
    /\ questions = FullBank
    /\ perf = EmptyFunction
    /\ quizzes = << >>
    /\ attempts = << >>
    /\ configs = EmptyFunction
    /\ enrollments \in SUBSET (Students \X CourseIds)
    /\ now = 0
    /\ response = 0
    /\ calc = IdleCalc
    /\ txn = IdleRequests
    /\ analytics = EmptyFunction
    /\ budget = [generated |-> 0, admin |-> 0, unserved |-> 0, rollups |-> 0, quizzes |-> MaxQuizzes, attempts |-> MaxAttempts]

NextEnrolled ==
    \/ \E u \in Users, lesson \in 1..3 :
         GenerateDynamicQuiz(u, lesson, MinRouteTotal, TRUE)
    \/ \E u \in Users, course_id \in CourseIds, lesson \in 1..3 :
         GenerateAdaptiveQuizForLesson(u, course_id, lesson, MinRouteTotal)

SpecEnrolled == InitEnrolled /\ [][NextEnrolled]_vars

\* the distribution calculation on its own, for every capability level and
\* every total up to the largest the route accepts
InitDist ==
    /\ questions = FullBank
    /\ perf = EmptyFunction
    /\ quizzes = << >>
    /\ attempts = << >>
    /\ configs = EmptyFunction
    /\ enrollments = InitialEnrollments
    /\ now = 0
    /\ response = 0
    /\ calc \in {[capability |-> c, total |-> t, done |-> FALSE, result |-> NoDistribution] :
                   c \in CapabilityLevel, t \in MinDistTotal..MaxRouteTotal}
    /\ txn = IdleRequests
    /\ analytics = EmptyFunction
    /\ budget = [generated |-> 0, admin |-> 0, unserved |-> 0, rollups |-> 0, quizzes |-> MaxQuizzes, attempts |-> MaxAttempts]

NextDist == CalculateDistribution

SpecDist == InitDist /\ [][NextDist]_vars

\* ------------------------------------------------------------- properties

QuizIds == 1..Len(quizzes)

\* the usage statistics of a QuestionBank row
UsageStatistics(question) ==
    <<question.times_used, question.times_correct, question.success_rate,
      question.average_time_taken>>

\* some attempt of the quiz for the question has been answered
AlreadyAnswered(quiz_id, question_id) ==
    \E i \in Answered(attempts[quiz_id]) : attempts[quiz_id][i].question_id = question_id

\* this step is the owner's POST /answer for the question
AnswerStep(quiz_id, question_id) ==
    \E submission \in Submissions :
       SubmitAnswer(quizzes[quiz_id].student_id, quiz_id, question_id,
                    submission[1], submission[2])

\* C1: once a submitAnswer has answered the served attempt of a session for
\* a question, a second submitAnswer for the same session and question is
\* rejected and leaves the question's usage statistics and the student's
\* StudentPerformance records exactly as they were.
C1_SecondSubmissionRejected ==
    [][\A quiz_id \in QuizIds, question_id \in QIds :
         (AlreadyAnswered(quiz_id, question_id) /\ AnswerStep(quiz_id, question_id))
           => /\ response' # 200
              /\ UsageStatistics(questions'[question_id])
                   = UsageStatistics(questions[question_id])
              /\ perf' = perf]_vars

\* C2: in every reachable state the cursor of every session is at most its
\* total_questions (whatever that total is, 0 included), and no step ever
\* decreases the cursor of a session.
C2_CursorBoundedAndMonotone ==
    /\ [](\A quiz_id \in QuizIds :
            quizzes[quiz_id].current_question_index <= quizzes[quiz_id].total_questions)
    /\ [][\A quiz_id \in QuizIds :
            quizzes'[quiz_id].current_question_index
              >= quizzes[quiz_id].current_question_index]_vars

\* no question id appears in attempt rows of two different positions
NoQuestionServedTwice(atts) ==
    \A i, j \in Indices(atts) :
       atts[i].question_id = atts[j].question_id
         => atts[i].question_order = atts[j].question_order

\* C3: the selected question id list of every session is free of duplicates,
\* after generation and after any number of adaptive substitutions, and no
\* question is served at two positions of one session.
C3_NoDuplicateQuestions ==
    \A quiz_id \in QuizIds :
       /\ NoDuplicates(quizzes[quiz_id].selected_questions)
       /\ NoQuestionServedTwice(attempts[quiz_id])

\* the selected list alone: free of duplicates in every reachable state
SelectedListHasNoDuplicates ==
    \A quiz_id \in QuizIds : NoDuplicates(quizzes[quiz_id].selected_questions)

\* points earned and points possible over the attempts of a session
PointsEarned(atts) ==
    SumOver([i \in Indices(atts) |-> atts[i].points_earned], Indices(atts))

PointsPossible(atts, qs) ==
    SumOver([i \in Indices(atts) |-> qs[atts[i].question_id].points], Indices(atts))

\* the session is completed by this step
CompletedByStep(quiz_id) ==
    ~quizzes[quiz_id].is_completed /\ quizzes'[quiz_id].is_completed

\* C4: whenever a session is completed, its final_score is between 0 and 100
\* and is points earned over points possible (over its attempts) times 100,
\* and 0 when no points are possible, whatever updates of point values and
\* deactivations were interleaved with the quiz.
C4_FinalScoreIsPercentage ==
    [][\A quiz_id \in QuizIds :
         CompletedByStep(quiz_id) =>
           LET score == quizzes'[quiz_id].final_score
               earned == PointsEarned(attempts'[quiz_id])
               possible == PointsPossible(attempts'[quiz_id], questions')
           IN /\ score.num >= 0
              /\ score.num <= 100 * score.den
              /\ IF possible = 0 THEN score.num = 0
                 ELSE score.num * possible = earned * 100 * score.den]_vars

\* the fields of a session that completion writes
CompletionFields(quiz) ==
    <<quiz.is_completed, quiz.completed_at, quiz.actual_duration_minutes,
      quiz.final_score, quiz.questions_answered, quiz.actual_easy,
      quiz.actual_medium, quiz.actual_hard, quiz.ending_capability>>

\* this step is a submit_answer of the service that runs _complete_quiz
CompletionStep(quiz_id) ==
    /\ quizzes[quiz_id].current_question_index + 1 >= quizzes[quiz_id].total_questions
    /\ \E question_id \in QIds, submission \in Submissions :
          ServiceSubmitAnswerCall(quiz_id, question_id, submission[1], submission[2])

\* C5: running the completion logic on a session that is already completed
\* leaves is_completed, completed_at, actual_duration_minutes, final_score,
\* questions_answered, the actual tier counts and the ending capability as
\* they were.
C5_CompletionIdempotent ==
    [][\A quiz_id \in QuizIds :
         (quizzes[quiz_id].is_completed /\ CompletionStep(quiz_id))
           => CompletionFields(quizzes'[quiz_id]) = CompletionFields(quizzes[quiz_id])]_vars

\* C6: for every capability level and every total of at least 3, the counts
\* computed for a quiz add up to the total, none is negative, and there is
\* at least one easy and at least one hard question.
C6_DistributionWellFormed ==
    (calc.done /\ calc.total >= 3) =>
       /\ calc.result.easy + calc.result.medium + calc.result.hard = calc.total
       /\ calc.result.easy >= 0 /\ calc.result.medium >= 0 /\ calc.result.hard >= 0
       /\ calc.result.easy >= 1
       /\ calc.result.hard >= 1

\* C7: the counts computed for a quiz are those of the reference operator
\* (easy and hard the floor of total times ratio but at least 1, medium the
\* rest, ratios from the four-row table); a beginner asking for 10 questions
\* gets 7 easy, 2 medium and 1 hard.
C7_DistributionMatchesReference ==
    calc.done =>
       /\ calc.result = GetEnhancedDistribution(calc.capability, calc.total)
       /\ (calc.capability = "beginner" /\ calc.total = 10
             => calc.result = [easy |-> 7, medium |-> 2, hard |-> 1])

\* one tier above easy or medium, one tier below medium or hard
OneTierUp(difficulty) == IF difficulty = "easy" THEN "medium" ELSE "hard"

OneTierDown(difficulty) == IF difficulty = "hard" THEN "medium" ELSE "easy"

\* an active question of the quiz's course at the tier that is neither in the
\* selected list nor in an attempt of the quiz
UnusedQuestionExists(quiz_id, tier) ==
    \E q \in QIds :
       /\ questions[q].is_active
       /\ questions[q].course_id = quizzes[quiz_id].course_id
       /\ questions[q].difficulty_level = tier
       /\ q \notin Range(quizzes[quiz_id].selected_questions)
       /\ \A i \in Indices(attempts[quiz_id]) : attempts[quiz_id][i].question_id # q

\* an adaptive session whose questions 1 to 3 have been served once each and
\* answered, with the cursor on a planned question 4
FirstThreeAnswered(quiz_id) ==
    /\ quizzes[quiz_id].is_adaptive
    /\ ~quizzes[quiz_id].is_completed
    /\ quizzes[quiz_id].current_question_index = 3
    /\ Len(quizzes[quiz_id].selected_questions) >= 4
    /\ Len(attempts[quiz_id]) = 3
    /\ \A i \in 1..3 : /\ attempts[quiz_id][i].question_order = i
                       /\ attempts[quiz_id][i].answered_at # NoTime

\* this step is the owner's GET /question
QuestionStep(quiz_id) == GetNextQuestion(quizzes[quiz_id].student_id, quiz_id)

C8_IncreaseServed ==
    \E quiz_id \in QuizIds :
       LET quiz == quizzes[quiz_id]
           atts == attempts[quiz_id]
       IN /\ quiz.is_adaptive
          /\ Len(atts) = 4
          /\ \A i \in 1..4 : atts[i].question_order = i
          /\ \A i \in 1..3 : /\ atts[i].answered_at # NoTime
                             /\ atts[i].is_correct
                             /\ atts[i].time_taken_seconds = 30
          /\ questions[quiz.selected_questions[4]].difficulty_level \in {"easy", "medium"}
          /\ atts[4].question_difficulty
               = OneTierUp(questions[quiz.selected_questions[4]].difficulty_level)
          /\ quiz.adaptive_changes_made >= 1

\* C9: no step changes an entry of selected_questions or increments
\* adaptive_changes_made in a session that is not adaptive, nor in any
\* session that has fewer than 3 answered attempts.
C9_NoEarlySubstitution ==
    [][\A quiz_id \in QuizIds :
         (~quizzes[quiz_id].is_adaptive \/ Cardinality(Answered(attempts[quiz_id])) < 3)
           => /\ quizzes'[quiz_id].selected_questions = quizzes[quiz_id].selected_questions
              /\ quizzes'[quiz_id].adaptive_changes_made
                   = quizzes[quiz_id].adaptive_changes_made]_vars

\* the half of C9 about sessions that are not adaptive
NonAdaptiveNeverSubstitutes ==
    \A quiz_id \in QuizIds :
       ~quizzes[quiz_id].is_adaptive => quizzes[quiz_id].adaptive_changes_made = 0

\* C10: a submitAnswer for a question that has no open (served, unanswered)
\* attempt in the session is rejected and changes neither the cursor and the
\* other fields of the session, nor the question's usage statistics, nor the
\* StudentPerformance records, nor the attempts.
C10_UnservedAnswerRejected ==
    [][\A quiz_id \in QuizIds, question_id \in QIds :
         (OpenAttempts(attempts[quiz_id], question_id) = {}
            /\ AnswerStep(quiz_id, question_id))
           => /\ response' # 200
              /\ UNCHANGED <<quizzes, questions, perf, attempts>>]_vars

\* this step is a start, nextQuestion or submitAnswer request of student u
\* that names the quiz
SessionCall(u, quiz_id) ==
    \/ StartQuiz(u, quiz_id)
    \/ GetNextQuestion(u, quiz_id)
    \/ \E question_id \in QIds, submission \in Submissions :
          SubmitAnswer(u, quiz_id, question_id, submission[1], submission[2])

\* the fields of a session that a completed session must keep
FrozenFields(quiz) ==
    <<quiz.current_question_index, quiz.selected_questions, quiz.final_score,
      quiz.completed_at, quiz.ending_capability>>

\* C11: once a session is completed, every start, nextQuestion or
\* submitAnswer request on it is rejected, and the request changes neither
\* its cursor, selected list, final score, completion time and ending
\* capability nor its attempt rows.
C11_CompletedSessionImmutable ==
    [][\A quiz_id \in QuizIds, u \in Callers :
         (quizzes[quiz_id].is_completed /\ SessionCall(u, quiz_id))
           => /\ response' \in {400, 404}
              /\ quizzes'[quiz_id].is_completed
              /\ FrozenFields(quizzes'[quiz_id]) = FrozenFields(quizzes[quiz_id])
              /\ attempts'[quiz_id] = attempts[quiz_id]]_vars

\* a completed session with answered attempts has refused a request
C11_CompletedSessionRefused ==
    \E quiz_id \in QuizIds :
       /\ quizzes[quiz_id].is_completed
       /\ Answered(attempts[quiz_id]) # {}
       /\ response = 400

\* this step is a request of student u that names the quiz: start,
\* nextQuestion, submitAnswer or results
AnyCall(u, quiz_id) == SessionCall(u, quiz_id) \/ GetQuizResults(u, quiz_id)

\* C12: a start, nextQuestion, submitAnswer or results request on a session
\* by a student who does not own it is rejected and leaves the sessions,
\* the attempts, the questions' usage statistics and the StudentPerformance
\* records unchanged.
C12_ForeignSessionRejected ==
    [][\A quiz_id \in QuizIds, u \in Callers :
         (quizzes[quiz_id].student_id # u /\ AnyCall(u, quiz_id))
           => /\ response' \in {403, 404}
              /\ UNCHANGED <<quizzes, attempts, questions, perf>>]_vars

\* a session in progress (served, not completed) stands unchanged after a
\* request was answered 404: only another student's request ends so
C12_ForeignRequestRefused ==
    \E quiz_id \in QuizIds :
       /\ ~quizzes[quiz_id].is_completed
       /\ quizzes[quiz_id].current_question_index < Len(quizzes[quiz_id].selected_questions)
       /\ Len(attempts[quiz_id]) > 0
       /\ response = 404

\* this step is a start request of the owner of the quiz
OwnerStart(quiz_id) == StartQuiz(quizzes[quiz_id].student_id, quiz_id)

\* C17: start stamps a session only the first time; a later start on the
\* session, not yet completed, succeeds and changes no field of it, and a
\* start on a completed session fails and changes nothing.
C17_StartIdempotent ==
    [][\A quiz_id \in QuizIds :
         OwnerStart(quiz_id) =>
           IF quizzes[quiz_id].is_completed
           THEN response' # 200 /\ quizzes' = quizzes
           ELSE IF quizzes[quiz_id].started_at # NoTime
           THEN response' = 200 /\ quizzes' = quizzes
           ELSE /\ response' = 200
                /\ quizzes' = [quizzes EXCEPT ![quiz_id].started_at = now]]_vars

\* a session started at time 0 is still stamped 0 after the clock moved on
C17_StartedEarlier ==
    \E quiz_id \in QuizIds :
       /\ quizzes[quiz_id].started_at # NoTime
       /\ quizzes[quiz_id].started_at < now
       /\ ~quizzes[quiz_id].is_completed
       /\ response = 200

\* C13: a quiz session for a student and a lesson is created only if the
\* student is enrolled, at that moment, in the course the lesson belongs
\* to, whichever generation route created it.
C13_GenerationRequiresEnrollment ==
    [][Len(quizzes') > Len(quizzes) =>
         LET quiz == quizzes'[Len(quizzes')]
         IN <<quiz.student_id, LessonCourse(quiz.lesson_id)>> \in enrollments]_vars

\* this step is a generate request of the enrolled student for
\* MinRouteTotal questions
GenerateStep ==
    \E lesson \in 1..3, is_adaptive \in BOOLEAN :
       GenerateDynamicQuiz(1, lesson, MinRouteTotal, is_adaptive)

\* C14: whatever the question bank holds and whatever configuration is in
\* effect, generate succeeds and creates a session whose total_questions is
\* the length of its selected list and at most the number requested.
C14_GenerateNeverExceedsRequest ==
    [][GenerateStep =>
         /\ response' = 200
         /\ Len(quizzes') = Len(quizzes) + 1
         /\ LET quiz == quizzes'[Len(quizzes')]
            IN /\ quiz.total_questions = Len(quiz.selected_questions)
               /\ quiz.total_questions <= MinRouteTotal]_vars

\* the records of the student for other lessons of the course of the lesson
SameCourseRecords(student, lesson) ==
    {k \in DOMAIN perf : k[1] = student /\ LessonCourse(k[2]) = LessonCourse(lesson)}

\* all attempt and correct counters and both streaks of a record are 0
ZeroCounters(p) ==
    /\ p.easy_attempts = 0 /\ p.easy_correct = 0
    /\ p.medium_attempts = 0 /\ p.medium_correct = 0
    /\ p.hard_attempts = 0 /\ p.hard_correct = 0
    /\ p.current_streak = 0 /\ p.best_streak = 0

\* the record created for (student, lesson) in this step is the only change
\* of the table, has zero counters, and carries the capability of a record
\* of the same course if there is one and beginner otherwise
SeededRecordCreated(student, lesson) ==
    /\ DOMAIN perf' = DOMAIN perf \cup {<<student, lesson>>}
    /\ \A k \in DOMAIN perf : perf'[k] = perf[k]
    /\ ZeroCounters(perf'[<<student, lesson>>])
    /\ IF SameCourseRecords(student, lesson) = {}
       THEN perf'[<<student, lesson>>].current_capability = "beginner"
       ELSE \E k \in SameCourseRecords(student, lesson) :
               perf'[<<student, lesson>>].current_capability = perf[k].current_capability

\* C15: an assessment of a student for a lesson without a record creates
\* exactly one record, with all counters and streaks at 0; the capability of
\* the new record and the level returned (the starting capability of the
\* quiz being generated) are those of a record of the student for another
\* lesson of the same course if there is one, and beginner otherwise.
C15_FirstAssessmentSeeds ==
    [][\A lesson \in 1..3 :
         <<1, lesson>> \notin DOMAIN perf =>
           /\ AssessStudentCapabilityRoute(1, lesson) => SeededRecordCreated(1, lesson)
           /\ GenerateDynamicQuiz(1, lesson, MinRouteTotal, FALSE) =>
                 /\ SeededRecordCreated(1, lesson)
                 /\ quizzes'[Len(quizzes')].starting_capability
                      = perf'[<<1, lesson>>].current_capability]_vars

\* a quiz of lesson 1 starts at advanced beside a fresh record of lesson 1
\* with zero counters, the student having an advanced record for lesson 2
C15_SeededFromOtherLesson ==
    /\ Len(quizzes) = 1
    /\ quizzes[1].lesson_id = 1
    /\ quizzes[1].starting_capability = "advanced"
    /\ <<1, 1>> \in DOMAIN perf /\ <<1, 2>> \in DOMAIN perf
    /\ perf[<<1, 1>>].current_capability = "advanced"
    /\ ZeroCounters(perf[<<1, 1>>])
    /\ perf[<<1, 2>>].current_capability = "advanced"

\* the ending capability the rule gives a session that starts at `start`
\* and has `correct` correct answers among `served` attempts
RuleEndingCapability(start, correct, served) ==
    IF served > 0 /\ 10 * correct >= 9 * served /\ start \in {"beginner", "intermediate"}
    THEN IF start = "beginner" THEN "intermediate" ELSE "advanced"
    ELSE IF served > 0 /\ 10 * correct <= 3 * served /\ start \in {"advanced", "intermediate"}
    THEN IF start = "advanced" THEN "intermediate" ELSE "beginner"
    ELSE start

\* C16: at completion the ending capability of a session is one level above
\* its starting capability when the session accuracy is at least 0.9 and it
\* started at beginner or intermediate, one level below when the accuracy is
\* at most 0.3 and it started at advanced or intermediate, and the starting
\* capability otherwise; a session of 5 questions with 4 correct one-point
\* answers ends with final_score 80 and its capability unchanged.
C16_EndingCapabilityRule ==
    [][\A quiz_id \in QuizIds :
         CompletedByStep(quiz_id) =>
           LET quiz == quizzes'[quiz_id]
               atts == attempts'[quiz_id]
               correct == CorrectCount(atts)
           IN /\ ReportedEndingCapability(quiz)
                   = RuleEndingCapability(quiz.starting_capability, correct, Len(atts))
              /\ (quiz.total_questions = 5 /\ Len(atts) = 5 /\ correct = 4)
                    => /\ quiz.final_score.num = 80 * quiz.final_score.den
                       /\ ReportedEndingCapability(quiz) = quiz.starting_capability]_vars

\* a completed session of 5 answered questions, 4 of them right, that
\* started at intermediate
C16_FourOfFive ==
    \E quiz_id \in QuizIds :
       /\ quizzes[quiz_id].is_completed
       /\ quizzes[quiz_id].total_questions = 5
       /\ Cardinality(Answered(attempts[quiz_id])) = 5
       /\ CorrectCount(attempts[quiz_id]) = 4
       /\ quizzes[quiz_id].starting_capability = "intermediate"

\* completed sessions that were promoted, demoted, and left alone at the
\* ends of the scale
C16_Promoted ==
    \E quiz_id \in QuizIds :
       /\ quizzes[quiz_id].is_completed
       /\ quizzes[quiz_id].starting_capability = "intermediate"
       /\ quizzes[quiz_id].ending_capability = "advanced"

C16_Demoted ==
    \E quiz_id \in QuizIds :
       /\ quizzes[quiz_id].is_completed
       /\ quizzes[quiz_id].starting_capability = "advanced"
       /\ quizzes[quiz_id].ending_capability = "intermediate"

C16_AdvancedNotPromoted ==
    \E quiz_id \in QuizIds :
       /\ quizzes[quiz_id].is_completed
       /\ quizzes[quiz_id].starting_capability = "advanced"
       /\ CorrectCount(attempts[quiz_id]) = Len(attempts[quiz_id])
       /\ Len(attempts[quiz_id]) > 0

\* the requests whose answer has been accepted
AcceptedRequests == {r \in Requests : txn[r].pc = "done"}

\* C18: however the read and write steps of concurrent submitAnswer
\* requests of different students on one question interleave, the
\* question's times_used is the number of accepted answers for it and its
\* times_correct the number of correct ones among them.
C18_NoLostUpdate ==
    \A q \in QIds :
       LET accepted == {r \in AcceptedRequests : txn[r].question_id = q}
           correct == {r \in accepted :
                         txn[r].selected_answer = questions[q].correct_answer}
       IN /\ questions[q].times_used = Cardinality(accepted)
          /\ questions[q].times_correct = Cardinality(correct)

\* the capability levels in ascending order
LevelRank(level) ==
    CASE level = "beginner" -> 1 [] level = "intermediate" -> 2
      [] level = "advanced" -> 3 [] level = "expert" -> 4

\* C19: raising one of the five factors while the other four stay as they
\* are never lowers the weighted capability score and never lowers the
\* capability level returned.
C19_AssessmentMonotone ==
    [][\A factor \in FactorNames :
         (/\ calc'.factors[factor] > calc.factors[factor]
          /\ \A other \in FactorNames \ {factor} :
                calc'.factors[other] = calc.factors[other])
           => /\ calc'.after.score >= calc.after.score
              /\ LevelRank(calc'.after.level) >= LevelRank(calc.after.level)
              /\ LevelRank(calc'.after.ladder) >= LevelRank(calc.after.ladder)]_vars

\* a higher velocity alone has lifted a student from advanced to expert
C19_RaisedALevel ==
    /\ calc.raised = "velocity"
    /\ calc.before.level = "advanced"
    /\ calc.after.level = "expert"

\* a StudentPerformance record is well-formed
WellFormed(p) ==
    /\ p.easy_correct <= p.easy_attempts
    /\ p.medium_correct <= p.medium_attempts
    /\ p.hard_correct <= p.hard_attempts
    /\ p.current_streak <= p.best_streak

\* C20: every StudentPerformance record is well-formed in every reachable
\* state (per tier corrects <= attempts, current_streak <= best_streak), and
\* an accepted answer leaves current_streak at the previous value + 1 if it
\* was correct and at 0 if it was incorrect.
C20_PerformanceWellFormed ==
    /\ [](\A k \in DOMAIN perf : WellFormed(perf[k]))
    /\ [][\A u \in Callers, quiz_id \in QuizIds, question_id \in QIds,
              submission \in Submissions :
            (/\ response' = 200
             /\ SubmitAnswer(u, quiz_id, question_id, submission[1], submission[2]))
              => LET k == <<quizzes[quiz_id].student_id, quizzes[quiz_id].lesson_id>>
                     is_correct == (submission[1] = questions[question_id].correct_answer)
                 IN /\ k \in DOMAIN perf
                    /\ perf'[k].current_streak =
                         IF is_correct THEN perf[k].current_streak + 1 ELSE 0]_vars

\* a record after two correct answers and a wrong one: the streak is back
\* at 0 below the best streak, and a tier has fewer corrects than attempts
C20_StreakBroken ==
    \E k \in DOMAIN perf :
       /\ perf[k].current_streak = 0
       /\ perf[k].best_streak >= 2
       /\ \/ perf[k].easy_correct < perf[k].easy_attempts
          \/ perf[k].medium_correct < perf[k].medium_attempts
          \/ perf[k].hard_correct < perf[k].hard_attempts

\* C21: no attempt row exists and no answer has been accepted for a session
\* that has not been started, and every completed session has a start
\* timestamp that is not later than its completion.
C21_StartedBeforeServed ==
    \A quiz_id \in QuizIds :
       LET quiz == quizzes[quiz_id]
       IN /\ quiz.started_at = NoTime
             => /\ attempts[quiz_id] = << >>
                /\ quiz.current_question_index = 0
          /\ quiz.is_completed
             => /\ quiz.started_at # NoTime
                /\ quiz.started_at <= quiz.completed_at

\* C22: in every reachable state a session has at most one unanswered
\* attempt and at most one attempt row per sequence position, so
\* nextQuestion never serves a question while an attempt is outstanding.
C22_OneOutstandingAttempt ==
    \A quiz_id \in QuizIds :
       LET atts == attempts[quiz_id]
       IN /\ Cardinality(Indices(atts) \ Answered(atts)) <= 1
          /\ \A i, j \in Indices(atts) :
                atts[i].question_order = atts[j].question_order => i = j

\* the attempt rows of a quiz that are the latest one of their position
LatestServed(atts) ==
    {i \in Indices(atts) :
       \A j \in Indices(atts) : atts[j].question_order = atts[i].question_order => j <= i}

\* C23: the question served at a cursor position is the entry of the stored
\* selected-question list at that position from then on (a substitution
\* overwrites the planned id in place), and the list keeps the length
\* total_questions.
C23_ServedIsStored ==
    \A quiz_id \in QuizIds :
       LET quiz == quizzes[quiz_id]
           atts == attempts[quiz_id]
       IN /\ Len(quiz.selected_questions) = quiz.total_questions
          /\ \A i \in LatestServed(atts) :
                quiz.selected_questions[atts[i].question_order] = atts[i].question_id

\* the active questions of a course, of any tier
ActiveOfCourse(course_id) ==
    UNION {CoursePool(questions, course_id, difficulty, {}) :
             difficulty \in {"easy", "medium", "hard"}}

\* C24: when the lesson's course holds at least as many active questions as
\* were asked for, the generated session has exactly that many questions,
\* all of them active questions of the course and no two the same, even if
\* a tier holds fewer questions than its planned count.
C24_SessionFilledAcrossTiers ==
    [][\A lesson \in 1..3 :
         (/\ GenerateDynamicQuiz(1, lesson, MinRouteTotal, FALSE)
          /\ response' = 200
          /\ Cardinality(ActiveOfCourse(LessonCourse(lesson))) >= MinRouteTotal)
           => LET quiz == quizzes'[Len(quizzes')]
                  selected == quiz.selected_questions
              IN /\ quiz.total_questions = MinRouteTotal
                 /\ Len(selected) = MinRouteTotal
                 /\ \A i \in 1..Len(selected) :
                       selected[i] \in ActiveOfCourse(LessonCourse(lesson))
                 /\ \A i, j \in 1..Len(selected) : selected[i] = selected[j] => i = j]_vars

\* the completed quizzes of a student for a lesson
CompletedFor(student_id, lesson_id) ==
    {q \in QuizIds : /\ quizzes[q].student_id = student_id
                     /\ quizzes[q].lesson_id = lesson_id
                     /\ quizzes[q].is_completed}

\* the 3 most recently completed of them (the later id first among quizzes
\* completed at the same instant)
RecentlyCompleted(student_id, lesson_id) ==
    LET done == CompletedFor(student_id, lesson_id)
        Later(a, b) == \/ quizzes[a].completed_at > quizzes[b].completed_at
                       \/ quizzes[a].completed_at = quizzes[b].completed_at /\ a > b
    IN {q \in done : Cardinality({r \in done : Later(r, q)}) < 3}

\* C25: generate selects only questions that are active at selection time
\* and none that is in the selected list of one of the student's 3 most
\* recently completed sessions for the same lesson.
C25_NoRecentlyServedQuestion ==
    [][(GenerateDynamicQuiz(1, 1, MinRouteTotal, FALSE) /\ response' = 200)
         => LET selected == quizzes'[Len(quizzes')].selected_questions
            IN \A i \in 1..Len(selected) :
                 /\ questions[selected[i]].is_active
                 /\ \A q \in RecentlyCompleted(1, 1) :
                      \A j \in 1..Len(quizzes[q].selected_questions) :
                        quizzes[q].selected_questions[j] # selected[i]]_vars

\* C26: an accepted submitAnswer advances the cursor by one and leaves the
\* session completed if and only if the cursor has reached total_questions,
\* so the answer that brings the cursor there completes the session in the
\* same operation and no earlier one does; a student who keeps fetching and
\* answering questions reaches Completed, after exactly total_questions
\* answers.
C26_CompletedAtLastAnswer ==
    /\ [][\A quiz_id \in QuizIds, question_id \in QIds, submission \in Submissions :
            (/\ response' = 200
             /\ SubmitAnswer(1, quiz_id, question_id, submission[1], submission[2]))
              => LET after == quizzes'[quiz_id]
                 IN /\ after.current_question_index
                         = quizzes[quiz_id].current_question_index + 1
                    /\ after.is_completed
                         <=> after.current_question_index >= after.total_questions
                    /\ after.is_completed
                         => Cardinality(Answered(attempts'[quiz_id]))
                              = after.total_questions]_vars
    /\ (Len(quizzes) >= 1) ~> (Len(quizzes) >= 1 /\ quizzes[1].is_completed)

\* the last of the answers of a quiz has just been accepted and has
\* completed it
C26_LastAnswerCompleted ==
    \E quiz_id \in QuizIds :
       /\ response = 200
       /\ quizzes[quiz_id].is_completed
       /\ quizzes[quiz_id].total_questions >= 4
       /\ quizzes[quiz_id].current_question_index = quizzes[quiz_id].total_questions
       /\ Cardinality(Answered(attempts[quiz_id])) = quizzes[quiz_id].total_questions

\* the level the thresholds give a score in ten-thousandths
RuleLevel(score) ==
    IF score >= 8500 THEN "expert"
    ELSE IF score >= 7000 THEN "advanced"
    ELSE IF score >= 5000 THEN "intermediate"
    ELSE "beginner"

\* the weighted sum of the factors of a record as fractions of 1: the
\* accuracy as a fraction, the velocity clamped to 1
RuleScore(p, recent_trend) ==
    LET velocity == Hundredths(p.learning_velocity)
    IN 35 * (Hundredths(GetOverallAccuracy(p)) \div 100) + 25 * DifficultyProgression(p)
         + 15 * Hundredths(p.consistency_score)
         + 10 * (IF velocity > 100 THEN 100 ELSE velocity) + 15 * recent_trend

\* C27: for an existing record every factor of the assessment is a value in
\* [0,1], the weighted score 0.35 accuracy + 0.25 difficulty_progression +
\* 0.15 consistency + 0.10 velocity + 0.15 recent_trend lies in [0,1], and
\* the capability level obtained is the one the thresholds 0.85 / 0.70 /
\* 0.50 give that score.
C27_NormalisedWeightedLevel ==
    calc.done
      => LET score == RuleScore(perf[<<1, 1>>], calc.recent_trend)
         IN /\ \A factor \in FactorNames : calc.factors[factor] \in 0..100
            /\ calc.after.score \in 0..10000
            /\ calc.after.score = score
            /\ calc.after.level = RuleLevel(score)
            /\ calc.after.ladder = RuleLevel(score)

\* C28: the analytics rollup is idempotent: a run of it for a completed
\* session for which it has already run leaves quizzes_attempted,
\* quizzes_passed, avg_quiz_score and best_quiz_score of the student's course
\* analytics as they are.
C28_RollupIdempotent ==
    [][(budget.rollups >= 1 /\ UpdateStudentAnalyticsBackground(1, 1))
         => analytics' = analytics]_vars

\* C29: when the store fails at a commit of submitAnswer the call is
\* answered with an error, and after the caller has sent the same answer
\* again the answer is counted exactly once: in the attempt row, in the
\* StudentPerformance counters and streak, in the question's usage
\* statistics and in the session cursor.
C29_RetryCountsOnce ==
    [][(/\ calc.done
        /\ response = 500
        /\ SubmitAnswer(1, calc.quiz_id, calc.question_id, calc.selected_answer,
                        calc.time_taken_seconds))
         => LET correct == (calc.selected_answer
                              = questions[calc.question_id].correct_answer)
                counted == [k \in {"answered", "performance", "times_used",
                                   "current_question_index"} |-> calc.before[k] + 1]
                after == Counted(calc.quiz_id, calc.question_id)'
            IN /\ response' = 200
               /\ \A k \in DOMAIN counted : after[k] = counted[k]
               /\ after.current_streak
                    = IF correct THEN calc.before.current_streak + 1 ELSE 0]_vars

\* C30: the step that completes a session updates the recommended
\* difficulty of the student's StudentPerformance record from the whole
\* session: one tier up (hard stays hard) when the session's accuracy is at
\* least 0.8 and its time ratio at most 1.2, one tier down (easy stays easy)
\* when the accuracy is at most 0.4 and the time ratio at least 1.5, and
\* unchanged otherwise.
C30_RecommendedDifficultyUpdated ==
    [][\A quiz_id \in DOMAIN quizzes :
         (~quizzes[quiz_id].is_completed /\ quizzes'[quiz_id].is_completed)
           => LET k == <<quizzes[quiz_id].student_id, quizzes[quiz_id].lesson_id>>
                  was == perf[k].recommended_difficulty
                  session == attempts'[quiz_id]
                  R == Indices(session)
              IN perf'[k].recommended_difficulty
                   = IF ShouldIncreaseDifficulty(session, questions, R, was)
                     THEN (IF was = "easy" THEN "medium" ELSE "hard")
                     ELSE IF ShouldDecreaseDifficulty(session, questions, R, was)
                     THEN (IF was = "hard" THEN "medium" ELSE "easy")
                     ELSE was]_vars

====
